---- MODULE Spec2Model ----
(***************************************************************************)
(* Model of the content-analysis service (app/services/ai_service.py) and  *)
(* of the content router that runs it as a background task                 *)
(* (app/routers/contents.py).                                              *)
(*                                                                         *)
(* Python str values are TLA+ strings: Len, SubSeq and \o are the only     *)
(* string operations used, so s[i:j] is SubSeq(s, i+1, j).                 *)
(***************************************************************************)
EXTENDS Integers, Sequences, FiniteSets, TLC

VARIABLES
    HUGGINGFACE_API_KEY,    \* os.getenv("HUGGINGFACE_API_KEY"): JNull or JStr
    OPENAI_API_KEY,         \* os.getenv("OPENAI_API_KEY"): JNull or JStr
    upstream,               \* the answer the providers give to each call of an invocation
    an,                     \* one invocation of analyze_text
    fn,                     \* harness of the pure helpers: the text and what they returned
    contents,               \* the contents table: id -> committed row
    next_id,                \* the AUTO_INCREMENT counter of the contents table
    tasks,                  \* the background tasks: content id -> process_content_ai
    response,               \* the last HTTP response of the routers
    runs,                   \* what the finished invocations of analyze_text gave
    users,                  \* the users table: the committed rows, in id order
    signups,                \* the signup requests between their checks and their commit
    registered,             \* history: username -> the password its signup was given
    sessions                \* the SessionLocal() sessions of requests and tasks: open or closed

keys == <<HUGGINGFACE_API_KEY, OPENAI_API_KEY>>
api == <<contents, next_id, tasks, response>>
rest == <<runs, users, signups, registered, sessions>>
vars == <<HUGGINGFACE_API_KEY, OPENAI_API_KEY, upstream, an, fn,
          contents, next_id, tasks, response, runs, users, signups, registered,
          sessions>>

(***************************************************************************)
(* Python str primitives                                                   *)
(***************************************************************************)
Ch(s, i) == SubSeq(s, i, i)

Min(a, b) == IF a <= b THEN a ELSE b

LowerAlpha == "abcdefghijklmnopqrstuvwxyz"
UpperAlpha == "ABCDEFGHIJKLMNOPQRSTUVWXYZ"
Digits == "0123456789"

CharsOf(s) == {Ch(s, i) : i \in 1..Len(s)}

\* str.isspace() for the characters of the model's alphabet
Whitespace == {" ", "\t", "\n"}

\* the characters the regex class \w matches
WordChars == CharsOf(LowerAlpha) \cup CharsOf(UpperAlpha) \cup CharsOf(Digits) \cup {"_"}

LowerOf == [c \in CharsOf(UpperAlpha) |->
              Ch(LowerAlpha, CHOOSE i \in 1..Len(UpperAlpha) : Ch(UpperAlpha, i) = c)]
UpperOf == [c \in CharsOf(LowerAlpha) |->
              Ch(UpperAlpha, CHOOSE i \in 1..Len(LowerAlpha) : Ch(LowerAlpha, i) = c)]

\* s.upper(), built by halves
RECURSIVE str_upper(_)
str_upper(s) ==
    IF s = "" THEN ""
    ELSE IF Len(s) = 1 THEN (IF s \in DOMAIN UpperOf THEN UpperOf[s] ELSE s)
    ELSE LET h == Len(s) \div 2
         IN str_upper(SubSeq(s, 1, h)) \o str_upper(SubSeq(s, h + 1, Len(s)))

\* first index >= i of s holding a character outside the set cs; Len(s)+1 if none
SkipIn(s, i, cs) ==
    IF \E j \in i..Len(s) : Ch(s, j) \notin cs
    THEN CHOOSE j \in i..Len(s) : Ch(s, j) \notin cs /\ \A k \in i..(j - 1) : Ch(s, k) \in cs
    ELSE IF i > Len(s) THEN i ELSE Len(s) + 1

\* first index >= i of s holding a character of the set cs; Len(s)+1 if none
SkipNotIn(s, i, cs) ==
    IF \E j \in i..Len(s) : Ch(s, j) \in cs
    THEN CHOOSE j \in i..Len(s) : Ch(s, j) \in cs /\ \A k \in i..(j - 1) : Ch(s, k) \notin cs
    ELSE IF i > Len(s) THEN i ELSE Len(s) + 1

\* last index <= i of s holding a character outside cs; 0 if none
SkipInBack(s, i, cs) ==
    IF \E j \in 1..i : Ch(s, j) \notin cs
    THEN CHOOSE j \in 1..i : Ch(s, j) \notin cs /\ \A k \in (j + 1)..i : Ch(s, k) \in cs
    ELSE 0

\* s.strip()
str_strip(s) == SubSeq(s, SkipIn(s, 1, Whitespace), SkipInBack(s, Len(s), Whitespace))

\* s.split(): the maximal runs of non-whitespace characters
RECURSIVE SplitFrom(_, _)
SplitFrom(s, i) ==
    LET b == SkipIn(s, i, Whitespace)
    IN IF b > Len(s) THEN <<>>
       ELSE LET e == SkipNotIn(s, b, Whitespace)
            IN <<SubSeq(s, b, e - 1)>> \o SplitFrom(s, e)

str_split(s) == SplitFrom(s, 1)

\* sep.join(ws)
RECURSIVE str_join(_, _)
str_join(sep, ws) ==
    IF Len(ws) = 0 THEN ""
    ELSE IF Len(ws) = 1 THEN ws[1]
    ELSE ws[1] \o sep \o str_join(sep, Tail(ws))

str_endswith(s, suffix) ==
    Len(suffix) <= Len(s) /\ SubSeq(s, Len(s) - Len(suffix) + 1, Len(s)) = suffix

str_startswith(s, prefix) ==
    Len(prefix) <= Len(s) /\ SubSeq(s, 1, Len(prefix)) = prefix

\* sub in s
str_contains(s, sub) ==
    \E i \in 1..(Len(s) - Len(sub) + 1) : SubSeq(s, i, i + Len(sub) - 1) = sub

\* s[:n]
str_prefix(s, n) == SubSeq(s, 1, Min(n, Len(s)))

\* n copies of s
RECURSIVE Repeat(_, _)
Repeat(s, n) ==
    IF n = 0 THEN ""
    ELSE LET half == Repeat(s, n \div 2)
         IN IF n % 2 = 0 THEN half \o half ELSE half \o half \o s

\* a text of n one-letter words
RECURSIVE Words(_)
Words(n) == IF n = 0 THEN "" ELSE IF n = 1 THEN "w" ELSE "w " \o Words(n - 1)

(***************************************************************************)
(* Local fallback synthesis: _generate_fallback_summary                    *)
(***************************************************************************)
SENTENCE_MIN_CHARS == 15
FALLBACK_MAX_WORDS == 30

SentenceTerminals == {".", "!", "?"}

\* re.split(r'[.!?]+', s): the pieces of s between the runs of terminals
RECURSIVE re_split_from(_, _)
re_split_from(s, i) ==
    LET e == SkipNotIn(s, i, SentenceTerminals)
    IN IF e > Len(s) THEN <<SubSeq(s, i, Len(s))>>
       ELSE <<SubSeq(s, i, e - 1)>> \o re_split_from(s, SkipIn(s, e, SentenceTerminals))

re_split_sentences(s) == re_split_from(s, 1)

\* the first-sentence branch: sentences[0].strip(), with a period added if it
\* lacks terminal punctuation
first_sentence_summary(first_sentence) ==
    IF \E p \in SentenceTerminals : str_endswith(first_sentence, p)
    THEN first_sentence
    ELSE first_sentence \o "."

\* a threshold that lets a sentence of exactly 15 characters through
first_sentence_at_least_min(first_sentence) == Len(first_sentence) >= SENTENCE_MIN_CHARS

\* whether the first-sentence branch is taken
first_sentence_substantial(first_sentence) == Len(first_sentence) > SENTENCE_MIN_CHARS

\* a word branch that marks a text of exactly 30 words as cut
first_words_summary_marks_30(text) ==
    LET all_words == str_split(text)
        words == SubSeq(all_words, 1, Min(FALLBACK_MAX_WORDS, Len(all_words)))
        summary == str_join(" ", words)
    IN IF Len(all_words) >= FALLBACK_MAX_WORDS THEN summary \o "..." ELSE summary

\* the word branch: the first 30 words, with "..." if there were more
first_words_summary(text) ==
    LET all_words == str_split(text)
        words == SubSeq(all_words, 1, Min(FALLBACK_MAX_WORDS, Len(all_words)))
        summary == str_join(" ", words)
    IN IF Len(all_words) > FALLBACK_MAX_WORDS THEN summary \o "..." ELSE summary

\* a fallback without the check for blank text
generate_fallback_summary_unchecked(text0) == first_words_summary(str_strip(text0))

generate_fallback_summary(text0) ==
    IF text0 = "" \/ str_strip(text0) = "" THEN "No text provided"
    ELSE LET text == str_strip(text0)
             sentences == re_split_sentences(text)
             first_sentence == str_strip(sentences[1])
         IN IF Len(sentences) > 0 /\ first_sentence_substantial(first_sentence)
            THEN first_sentence_summary(first_sentence)
            ELSE first_words_summary(text)

(***************************************************************************)
(* Local fallback synthesis: _detect_sentiment_keywords                    *)
(***************************************************************************)
POSITIVE == "Positive"
NEGATIVE == "Negative"
NEUTRAL == "Neutral"
SentimentType == {POSITIVE, NEGATIVE, NEUTRAL}

positive_words == <<
    "love", "loved", "loving", "amazing", "amazed", "great", "excellent",
    "wonderful", "fantastic", "perfect", "best", "awesome", "outstanding",
    "good", "happy", "pleased", "delighted", "satisfied", "brilliant",
    "superb", "marvelous", "incredible", "beautiful", "gorgeous", "stunning",
    "fabulous", "terrific", "magnificent", "exceptional", "remarkable",
    "impressive", "delicious", "tasty", "yummy", "enjoy", "enjoyed", "enjoying" >>

negative_words == <<
    "hate", "hated", "hating", "terrible", "awful", "bad", "worst",
    "disappointed", "horrible", "poor", "disgusting", "sad", "angry",
    "frustrated", "annoyed", "upset", "disgusted", "dreadful", "pathetic",
    "useless", "worthless", "garbage", "trash", "disgusting", "nasty",
    "unhappy", "miserable", "depressed", "furious", "rage", "annoying" >>

\* a str as the tuple of its characters
ToChars(s) == [i \in 1..Len(s) |-> SubSeq(s, i, i)]

\* text.lower(), as characters
lower_chars(s) ==
    [i \in 1..Len(s) |-> LET c == SubSeq(s, i, i)
                         IN IF c \in DOMAIN LowerOf THEN LowerOf[c] ELSE c]

\* the regex assertion \b before the character at index i (i in 1..Len(c)+1)
word_boundary(c, i) ==
    ((i > 1) /\ c[i - 1] \in WordChars) # ((i <= Len(c)) /\ c[i] \in WordChars)

\* the pattern \b + re.escape(word) + \b matches the characters c at index i
pattern_matches_at(word, c, i) ==
    /\ i + Len(word) - 1 <= Len(c)
    /\ word_boundary(c, i)
    /\ \A k \in 1..Len(word) : c[i + k - 1] = Ch(word, k)
    /\ word_boundary(c, i + Len(word))

\* the indexes at which such a pattern can match: every listed word starts with
\* a \w character, so \b before it holds only at the start of a run of \w
word_starts(c) == {i \in 1..Len(c) : c[i] \in WordChars /\ word_boundary(c, i)}

\* len(re.findall(pattern, text_lower)): a match spans a whole run of \w, so
\* the matches re.findall scans left to right never overlap
findall_count(word, c, starts) ==
    Cardinality({i \in starts : pattern_matches_at(word, c, i)})

\* the loop "for word in words: count += len(re.findall(...))"
RECURSIVE keyword_count_from(_, _, _, _)
keyword_count_from(words, c, starts, k) ==
    IF k > Len(words) THEN 0
    ELSE findall_count(words[k], c, starts) + keyword_count_from(words, c, starts, k + 1)

keyword_count(words, text) ==
    LET c == lower_chars(text)
    IN keyword_count_from(words, c, word_starts(c), 1)

positive_count(text) == keyword_count(positive_words, text)
negative_count(text) == keyword_count(negative_words, text)

\* a comparison that gives a tie to Positive
sentiment_of_counts_ties_positive(pos, neg) ==
    IF pos >= neg THEN POSITIVE ELSE NEGATIVE

\* the final comparison of the two counts
sentiment_of_counts(pos, neg) ==
    IF pos > neg THEN POSITIVE
    ELSE IF neg > pos THEN NEGATIVE
    ELSE NEUTRAL

detect_sentiment_keywords(text) ==
    sentiment_of_counts(positive_count(text), negative_count(text))

(***************************************************************************)
(* The is_fallback heuristic of analyze_text                               *)
(***************************************************************************)
IS_FALLBACK_MAX_WORDS == 30

is_fallback(summary, text) ==
    \/ Len(str_split(summary)) <= IS_FALLBACK_MAX_WORDS
    \/ str_endswith(summary, "...")
    \/ summary = str_prefix(text, Len(summary))

(***************************************************************************)
(* JSON values: what response.json() returns, and os.getenv                *)
(***************************************************************************)
JNull == [t |-> "null"]
JStr(s) == [t |-> "str", s |-> s]
JNum(n) == [t |-> "num", n |-> n]
JList(xs) == [t |-> "list", xs |-> xs]
JDict(kv) == [t |-> "dict", kv |-> kv]
\* a body that is not JSON: response.json() raises on it
NotJson == [t |-> "invalid"]

\* Python truthiness: bool(v)
truthy(v) ==
    CASE v.t = "null" -> FALSE
      [] v.t = "str"  -> v.s # ""
      [] v.t = "num"  -> v.n # 0
      [] v.t = "list" -> Len(v.xs) > 0
      [] v.t = "dict" -> DOMAIN v.kv # {}
      [] OTHER        -> FALSE

\* a or b
py_or(a, b) == IF truthy(a) THEN a ELSE b

\* d.get(key), for a dict d
dict_get(d, key) == IF key \in DOMAIN d.kv THEN d.kv[key] ELSE JNull

has_key(d, key) == d.t = "dict" /\ key \in DOMAIN d.kv

\* v[:n] does not raise: str and list can be sliced, a number or a dict cannot
sliceable(v) == v.t \in {"str", "list"}

nonempty_list(v) == v.t = "list" /\ Len(v.xs) > 0

(***************************************************************************)
(* Configuration: module constants of ai_service.py                        *)
(***************************************************************************)
HF_INPUT_LIMIT == 512
SUMMARY_UNAVAILABLE == "Summary not available"
OPENAI_PLACEHOLDER_KEY == "your-openai-api-key-here"

summary_models == <<"facebook/bart-large-cnn", "sshleifer/distilbart-cnn-12-6">>
sentiment_models == <<"cardiffnlp/twitter-roberta-base-sentiment-latest",
                      "distilbert-base-uncased-finetuned-sst-2-english">>
openai_model == "gpt-3.5-turbo"

\* huggingface_configured of analyze_text
huggingface_configured(hf_key) == truthy(hf_key) /\ str_strip(hf_key.s) # ""

\* a check that takes the placeholder for a key
openai_configured_accepts_placeholder(oa_key) ==
    truthy(oa_key) /\ str_strip(oa_key.s) # ""

\* openai_configured of analyze_text
openai_configured(oa_key) ==
    truthy(oa_key) /\ oa_key.s # OPENAI_PLACEHOLDER_KEY /\ str_strip(oa_key.s) # ""

(***************************************************************************)
(* Responses: an HTTP answer, or the exception client.post raises          *)
(* (timeout, transport error)                                              *)
(***************************************************************************)
HttpResponse(status, body) == [kind |-> "http", status |-> status, body |-> body]
PostRaises == [kind |-> "exception", status |-> 0, body |-> NotJson]

(***************************************************************************)
(* analyze_with_huggingface: the summarization cascade, one candidate      *)
(***************************************************************************)
\* obj = outputs[0] (or data[0]): a dict gives summary_text or generated_text,
\* a str gives itself, anything else leaves summary as it was
first_output(obj, summary) ==
    IF obj.t = "dict"
    THEN py_or(dict_get(obj, "summary_text"), dict_get(obj, "generated_text"))
    ELSE IF obj.t = "str" THEN obj
    ELSE summary

\* the shape matching of a 200 body that is not an error object
extract_summary_200(data, summary) ==
    IF data.t = "dict"
    THEN IF "outputs" \in DOMAIN data.kv
         THEN IF nonempty_list(data.kv["outputs"])
              THEN first_output(data.kv["outputs"].xs[1], summary)
              ELSE summary
         ELSE IF "summary_text" \in DOMAIN data.kv THEN data.kv["summary_text"]
         ELSE IF "generated_text" \in DOMAIN data.kv THEN data.kv["generated_text"]
         ELSE summary
    ELSE IF nonempty_list(data) THEN first_output(data.xs[1], summary)
    ELSE IF data.t = "str" THEN data
    ELSE summary

\* the shape matching of a 410 body that is not an error object
extract_summary_410(data, summary) ==
    IF data.t = "dict"
    THEN IF "outputs" \in DOMAIN data.kv
         THEN IF nonempty_list(data.kv["outputs"])
              THEN first_output(data.kv["outputs"].xs[1], summary)
              ELSE summary
         ELSE IF "summary_text" \in DOMAIN data.kv THEN data.kv["summary_text"]
         ELSE IF "generated_text" \in DOMAIN data.kv THEN data.kv["generated_text"]
         ELSE summary
    ELSE IF nonempty_list(data) THEN first_output(data.xs[1], summary)
    ELSE summary

\* a loop that never breaks
summary_found_never_stops(new) ==
    [summary |-> new, stop |-> FALSE]

\* "if summary: print(summary[:100]); break": a truthy value that can be sliced
\* ends the loop, one that cannot raises into the handler, which continues
summary_found(new) ==
    [summary |-> new, stop |-> truthy(new) /\ sliceable(new)]

summary_status_200(data, summary) ==
    IF data.t = "invalid" THEN [summary |-> summary, stop |-> FALSE]
    ELSE IF has_key(data, "error") THEN [summary |-> summary, stop |-> FALSE]
    ELSE summary_found(extract_summary_200(data, summary))

summary_status_410(data, summary) ==
    IF data.t = "invalid" THEN [summary |-> summary, stop |-> FALSE]
    ELSE IF has_key(data, "error") THEN [summary |-> summary, stop |-> FALSE]
    ELSE summary_found(extract_summary_410(data, summary))

\* a cascade that gives up when a model answers 503
summary_attempt_stops_on_503(resp, summary) ==
    IF resp.kind = "exception" THEN [summary |-> summary, stop |-> FALSE]
    ELSE IF resp.status = 200 THEN summary_status_200(resp.body, summary)
    ELSE IF resp.status = 503 THEN [summary |-> summary, stop |-> TRUE]
    ELSE IF resp.status = 410 THEN summary_status_410(resp.body, summary)
    ELSE [summary |-> summary, stop |-> FALSE]

\* a cascade that reads the body whatever the status
summary_attempt_any_status(resp, summary) ==
    IF resp.kind = "exception" THEN [summary |-> summary, stop |-> FALSE]
    ELSE summary_status_200(resp.body, summary)

\* one iteration of "for model in summary_models": the value of summary after
\* it, and whether the loop stops (break)
summary_attempt(resp, summary) ==
    IF resp.kind = "exception" THEN [summary |-> summary, stop |-> FALSE]
    ELSE IF resp.status = 200 THEN summary_status_200(resp.body, summary)
    ELSE IF resp.status = 503 THEN [summary |-> summary, stop |-> FALSE]
    ELSE IF resp.status = 404 THEN [summary |-> summary, stop |-> FALSE]
    ELSE IF resp.status = 410 THEN summary_status_410(resp.body, summary)
    ELSE [summary |-> summary, stop |-> FALSE]

(***************************************************************************)
(* analyze_with_huggingface: the sentiment cascade, one candidate          *)
(***************************************************************************)
\* scores_list of a 200 or 410 body; JNull stands for None
scores_list_of(data) ==
    IF data.t = "dict"
    THEN IF "outputs" \in DOMAIN data.kv /\ nonempty_list(data.kv["outputs"])
         THEN data.kv["outputs"].xs[1]
         ELSE JNull
    ELSE IF nonempty_list(data)
         THEN IF data.xs[1].t = "list" THEN data.xs[1] ELSE data
    ELSE JNull

\* x.get("score", 0)
score_of(x) == IF "score" \in DOMAIN x.kv THEN x.kv["score"] ELSE JNum(0)

\* x.get("label", "")
label_of(x) == IF "label" \in DOMAIN x.kv THEN x.kv["label"] ELSE JStr("")

\* max(scores_list, key=...), the formatting of the score and label.upper()
\* raise unless every entry is a dict with a numeric score and the chosen
\* label is a str
scores_raise(scores) ==
    \/ \E k \in 1..Len(scores.xs) : scores.xs[k].t # "dict"
    \/ \E k \in 1..Len(scores.xs) : score_of(scores.xs[k]).t # "num"
    \/ LET n == Len(scores.xs)
           top == CHOOSE k \in 1..n :
                     /\ \A j \in 1..n : score_of(scores.xs[j]).n <= score_of(scores.xs[k]).n
                     /\ \A j \in 1..(k - 1) : score_of(scores.xs[j]).n < score_of(scores.xs[k]).n
       IN label_of(scores.xs[top]).t # "str"

\* a max that keeps the last of the entries with the greatest key
max_label_last(scores) ==
    LET n == Len(scores.xs)
        top == CHOOSE k \in 1..n :
                  /\ \A j \in 1..n : score_of(scores.xs[j]).n <= score_of(scores.xs[k]).n
                  /\ \A j \in (k + 1)..n : score_of(scores.xs[j]).n < score_of(scores.xs[k]).n
    IN scores.xs[top]

\* max(scores_list, key=lambda x: x.get("score", 0)): Python's max keeps the
\* first of the entries with the greatest key
max_label(scores) ==
    LET n == Len(scores.xs)
        top == CHOOSE k \in 1..n :
                  /\ \A j \in 1..n : score_of(scores.xs[j]).n <= score_of(scores.xs[k]).n
                  /\ \A j \in 1..(k - 1) : score_of(scores.xs[j]).n < score_of(scores.xs[k]).n
    IN scores.xs[top]

\* the mapping of the upper-cased label to SentimentType
label_sentiment(label_upper) ==
    IF \/ str_contains(label_upper, "POSITIVE") \/ str_contains(label_upper, "POS")
       \/ str_contains(label_upper, "LABEL_2") \/ str_contains(label_upper, "LABEL_1")
    THEN POSITIVE
    ELSE IF \/ str_contains(label_upper, "NEGATIVE") \/ str_contains(label_upper, "NEG")
            \/ str_contains(label_upper, "LABEL_0")
    THEN NEGATIVE
    ELSE NEUTRAL

\* "if scores_list and isinstance(scores_list, list) and len(scores_list) > 0"
usable_scores(scores) == truthy(scores) /\ nonempty_list(scores)

\* a 200 branch that breaks on whatever label it mapped
sentiment_status_200_breaks_on_neutral(data, sentiment) ==
    IF data.t = "invalid" THEN [sentiment |-> sentiment, stop |-> FALSE]
    ELSE LET scores == scores_list_of(data)
         IN IF ~usable_scores(scores) THEN [sentiment |-> sentiment, stop |-> FALSE]
            ELSE IF scores_raise(scores) THEN [sentiment |-> sentiment, stop |-> FALSE]
            ELSE [sentiment |-> label_sentiment(str_upper(label_of(max_label(scores)).s)),
                  stop |-> TRUE]

sentiment_status_200(data, sentiment) ==
    IF data.t = "invalid" THEN [sentiment |-> sentiment, stop |-> FALSE]
    ELSE LET scores == scores_list_of(data)
         IN IF ~usable_scores(scores) THEN [sentiment |-> sentiment, stop |-> FALSE]
            ELSE IF scores_raise(scores) THEN [sentiment |-> sentiment, stop |-> FALSE]
            ELSE LET found == label_sentiment(str_upper(label_of(max_label(scores)).s))
                 IN [sentiment |-> found, stop |-> found # NEUTRAL]

sentiment_status_410(data, sentiment) ==
    IF data.t = "invalid" THEN [sentiment |-> sentiment, stop |-> FALSE]
    ELSE IF has_key(data, "error") THEN [sentiment |-> sentiment, stop |-> FALSE]
    ELSE LET scores == scores_list_of(data)
         IN IF ~usable_scores(scores) THEN [sentiment |-> sentiment, stop |-> FALSE]
            ELSE IF scores_raise(scores) THEN [sentiment |-> sentiment, stop |-> FALSE]
            ELSE LET found == label_sentiment(str_upper(label_of(max_label(scores)).s))
                 IN IF found # NEUTRAL
                    THEN [sentiment |-> found, stop |-> TRUE]
                    ELSE [sentiment |-> sentiment, stop |-> FALSE]

\* one iteration of "for model in sentiment_models"
sentiment_attempt(resp, sentiment) ==
    IF resp.kind = "exception" THEN [sentiment |-> sentiment, stop |-> FALSE]
    ELSE IF resp.status = 200 THEN sentiment_status_200(resp.body, sentiment)
    ELSE IF resp.status = 503 THEN [sentiment |-> sentiment, stop |-> FALSE]
    ELSE IF resp.status = 404 THEN [sentiment |-> sentiment, stop |-> FALSE]
    ELSE IF resp.status = 410 THEN sentiment_status_410(resp.body, sentiment)
    ELSE [sentiment |-> sentiment, stop |-> FALSE]

(***************************************************************************)
(* analyze_with_huggingface: after the two cascades                        *)
(***************************************************************************)
\* a fallback computed on the 512 characters sent upstream
summary_or_fallback_of_inputs(summary, text) ==
    IF ~truthy(summary)
    THEN JStr(generate_fallback_summary(str_prefix(text, HF_INPUT_LIMIT)))
    ELSE summary

\* "if not summary: summary = _generate_fallback_summary(text)"
summary_or_fallback(summary, text) ==
    IF ~truthy(summary) THEN JStr(generate_fallback_summary(text)) ELSE summary

\* "if not summary: summary = 'Summary not available'"
summary_or_placeholder(summary) ==
    IF ~truthy(summary) THEN JStr(SUMMARY_UNAVAILABLE) ELSE summary

\* a tail that never consults the keywords
keyword_fallback_never(sentiment, summary) == FALSE

\* a tail that consults the keywords on every Neutral
keyword_fallback_on_neutral(sentiment, summary) == sentiment = NEUTRAL

\* "if sentiment == NEUTRAL and summary != 'Summary not available'"
keyword_fallback_applies(sentiment, summary) ==
    sentiment = NEUTRAL /\ summary # JStr(SUMMARY_UNAVAILABLE)

\* the tail of analyze_with_huggingface: the result it returns, or raised when
\* the final print slices a summary that cannot be sliced
huggingface_result(text, cascade_summary, cascade_sentiment) ==
    LET summary == summary_or_placeholder(summary_or_fallback(cascade_summary, text))
        keywords == keyword_fallback_applies(cascade_sentiment, summary)
    IN [raised |-> ~sliceable(summary),
        summary |-> summary,
        sentiment |-> IF keywords THEN detect_sentiment_keywords(text) ELSE cascade_sentiment,
        fallback_summary |-> ~truthy(cascade_summary),
        keyword_sentiment |-> keywords]

(***************************************************************************)
(* analyze_with_openai                                                     *)
(***************************************************************************)
\* s.split(sep) for a one-character sep
RECURSIVE split_on_from(_, _, _)
split_on_from(s, sep, i) ==
    LET e == SkipNotIn(s, i, {sep})
    IN IF e > Len(s) THEN <<SubSeq(s, i, Len(s))>>
       ELSE <<SubSeq(s, i, e - 1)>> \o split_on_from(s, sep, e + 1)

str_split_on(s, sep) == split_on_from(s, sep, 1)

\* s.find(sub) + 1: the index of the first occurrence of sub in s, 0 if none
str_find(s, sub) ==
    LET last == Len(s) - Len(sub) + 1
    IN IF \E i \in 1..last : SubSeq(s, i, i + Len(sub) - 1) = sub
       THEN CHOOSE i \in 1..last :
               /\ SubSeq(s, i, i + Len(sub) - 1) = sub
               /\ \A k \in 1..(i - 1) : SubSeq(s, k, k + Len(sub) - 1) # sub
       ELSE 0

\* s.replace(old, ""): every occurrence of old removed, scanning left to right
RECURSIVE str_remove(_, _)
str_remove(s, old) ==
    LET i == str_find(s, old)
    IN IF i = 0 THEN s
       ELSE SubSeq(s, 1, i - 1) \o str_remove(SubSeq(s, i + Len(old), Len(s)), old)

\* result["choices"][0]["message"]["content"] and content.split: JNull stands
\* for the KeyError, IndexError, TypeError or AttributeError they raise
openai_content(result) ==
    IF /\ has_key(result, "choices")
       /\ nonempty_list(result.kv["choices"])
       /\ has_key(result.kv["choices"].xs[1], "message")
       /\ has_key(result.kv["choices"].xs[1].kv["message"], "content")
       /\ result.kv["choices"].xs[1].kv["message"].kv["content"].t = "str"
    THEN result.kv["choices"].xs[1].kv["message"].kv["content"]
    ELSE JNull

\* a mapping that takes the words in any case
openai_sentiment_ignoring_case(sentiment_str) ==
    IF str_contains(str_upper(sentiment_str), "POSITIVE") THEN POSITIVE
    ELSE IF str_contains(str_upper(sentiment_str), "NEGATIVE") THEN NEGATIVE
    ELSE NEUTRAL

\* the mapping of the text after "Sentiment:"
openai_sentiment(sentiment_str) ==
    IF str_contains(sentiment_str, "Positive") THEN POSITIVE
    ELSE IF str_contains(sentiment_str, "Negative") THEN NEGATIVE
    ELSE NEUTRAL

\* "for line in lines": acc holds summary and sentiment, JNull for None
RECURSIVE openai_parse_lines(_, _, _)
openai_parse_lines(lines, k, acc) ==
    IF k > Len(lines) THEN acc
    ELSE LET line == lines[k]
         IN IF str_startswith(line, "Summary:")
            THEN openai_parse_lines(lines, k + 1,
                     [acc EXCEPT !.summary = JStr(str_strip(str_remove(line, "Summary:")))])
            ELSE IF str_startswith(line, "Sentiment:")
            THEN openai_parse_lines(lines, k + 1,
                     [acc EXCEPT !.sentiment =
                         JStr(openai_sentiment(str_strip(str_remove(line, "Sentiment:"))))])
            ELSE openai_parse_lines(lines, k + 1, acc)

\* analyze_with_openai after the post: the result, or raised
openai_result(resp) ==
    LET failed == [raised |-> TRUE, summary |-> JNull, sentiment |-> NEUTRAL]
    IN IF resp.kind = "exception" THEN failed
       ELSE IF resp.status # 200 THEN failed
       ELSE IF resp.body.t = "invalid" THEN failed
       ELSE LET content == openai_content(resp.body)
            IN IF content = JNull THEN failed
               ELSE LET parsed == openai_parse_lines(str_split_on(content.s, "\n"), 1,
                                      [summary |-> JNull, sentiment |-> JNull])
                    IN [raised |-> FALSE,
                        summary |-> py_or(parsed.summary, JStr(SUMMARY_UNAVAILABLE)),
                        sentiment |-> IF truthy(parsed.sentiment)
                                      THEN parsed.sentiment.s ELSE NEUTRAL]

(***************************************************************************)
(* analyze_text as a state machine: one step per awaited upstream call     *)
(***************************************************************************)
\* the harness of the pure helpers, before a helper is applied
FnIdle == [op |-> "none", text |-> "", done |-> FALSE, summary |-> "",
           sentiment |-> NEUTRAL, pos |-> 0, neg |-> 0]

NoResult == [source |-> "none", summary |-> JNull, sentiment |-> NEUTRAL,
             fallback_summary |-> FALSE, keyword_sentiment |-> FALSE, judged |-> "none"]

\* the content router before any request: an empty table
NoResponse == [status |-> 0]
ApiIdle ==
    /\ contents = <<>>
    /\ next_id = 1
    /\ tasks = <<>>
    /\ response = NoResponse

\* no invocation of analyze_text finished, no user registered
RestIdle ==
    /\ runs = <<>>
    /\ users = <<>>
    /\ signups = {}
    /\ registered = <<>>
    /\ sessions = <<>>

NO_KEYS_ERROR == "ValueError: No API keys configured"
ALL_UNAVAILABLE_ERROR == "Exception: All services unavailable"

\* pc: idle, hf_summary, hf_sentiment, openai, returned, raised
\* i: the candidate model the next call goes to;  hf: how analyze_with_huggingface ended
AnIdle == [pc |-> "idle", text |-> "", i |-> 0, summary |-> JNull, sentiment |-> NEUTRAL,
           calls |-> <<>>, hf |-> "none", result |-> NoResult, error |-> "none"]

\* the end of analyze_text: both raise statements
an_raise(a, hf_key, oa_key) ==
    [a EXCEPT !.pc = "raised",
              !.error = IF ~huggingface_configured(hf_key) /\ ~openai_configured(oa_key)
                        THEN NO_KEYS_ERROR ELSE ALL_UNAVAILABLE_ERROR]

\* "if openai_configured:" up to the await of analyze_with_openai
an_openai_section(a, hf_key, oa_key) ==
    IF openai_configured(oa_key) /\ truthy(oa_key)
    THEN [a EXCEPT !.pc = "openai", !.i = 1]
    ELSE an_raise(a, hf_key, oa_key)

\* an analyze_text that goes to OpenAI first when it has an OpenAI key
an_begin_openai_first(text, hf_key, oa_key) ==
    LET a == [AnIdle EXCEPT !.text = text]
    IN IF openai_configured(oa_key) /\ truthy(oa_key)
       THEN [a EXCEPT !.pc = "openai", !.i = 1]
       ELSE IF huggingface_configured(hf_key) /\ truthy(hf_key)
       THEN [a EXCEPT !.pc = "hf_summary", !.i = 1]
       ELSE an_raise(a, hf_key, oa_key)

\* analyze_text up to its first await
an_begin(text, hf_key, oa_key) ==
    LET a == [AnIdle EXCEPT !.text = text]
    IN IF huggingface_configured(hf_key) /\ truthy(hf_key)
       THEN [a EXCEPT !.pc = "hf_summary", !.i = 1]
       ELSE an_openai_section(a, hf_key, oa_key)

\* the request bodies
huggingface_inputs(text) == str_prefix(text, HF_INPUT_LIMIT)
openai_prompt_text(text) == text

Call(provider, task, model, inputs, resp) ==
    [provider |-> provider, task |-> task, model |-> model, inputs |-> inputs,
     response |-> resp]

\* a cascade that starts over when its last candidate gave nothing
an_summary_response_starts_over(a, resp) ==
    LET r == summary_attempt(resp, a.summary)
        b == [a EXCEPT !.summary = r.summary,
                       !.calls = Append(@, Call("huggingface", "summary", summary_models[a.i],
                                                huggingface_inputs(a.text), resp))]
    IN IF r.stop
       THEN [b EXCEPT !.pc = "hf_sentiment", !.i = 1]
       ELSE [b EXCEPT !.i = (a.i % Len(summary_models)) + 1]

\* the answer of summary candidate a.i arrives
an_summary_response(a, resp) ==
    LET r == summary_attempt(resp, a.summary)
        b == [a EXCEPT !.summary = r.summary,
                       !.calls = Append(@, Call("huggingface", "summary", summary_models[a.i],
                                                huggingface_inputs(a.text), resp))]
    IN IF r.stop \/ a.i = Len(summary_models)
       THEN [b EXCEPT !.pc = "hf_sentiment", !.i = 1]
       ELSE [b EXCEPT !.i = a.i + 1]

\* analyze_text after analyze_with_huggingface returned: is_fallback is
\* computed for a summary other than the placeholder (summary.split() raises
\* on a value that is not a str), and the result is returned either way
an_huggingface_returned(a, res, hf_key, oa_key) ==
    IF truthy(res.summary) /\ res.summary # JStr(SUMMARY_UNAVAILABLE)
    THEN IF res.summary.t # "str"
         THEN an_openai_section([a EXCEPT !.hf = "returned"], hf_key, oa_key)
         ELSE [a EXCEPT !.hf = "returned", !.pc = "returned",
                        !.result = [source |-> "huggingface", summary |-> res.summary,
                                    sentiment |-> res.sentiment,
                                    fallback_summary |-> res.fallback_summary,
                                    keyword_sentiment |-> res.keyword_sentiment,
                                    judged |-> IF is_fallback(res.summary.s, a.text)
                                               THEN "fallback" ELSE "genuine"]]
    ELSE [a EXCEPT !.hf = "returned", !.pc = "returned",
                   !.result = [source |-> "huggingface", summary |-> res.summary,
                               sentiment |-> res.sentiment,
                               fallback_summary |-> res.fallback_summary,
                               keyword_sentiment |-> res.keyword_sentiment,
                               judged |-> "none"]]

\* the two cascades are over: the tail of analyze_with_huggingface, then
\* analyze_text's handling of its result or of its exception
an_huggingface_done(a, hf_key, oa_key) ==
    LET res == huggingface_result(a.text, a.summary, a.sentiment)
    IN IF res.raised
       THEN an_openai_section([a EXCEPT !.hf = "raised"], hf_key, oa_key)
       ELSE an_huggingface_returned(a, res, hf_key, oa_key)

\* the answer of sentiment candidate a.i arrives
an_sentiment_response(a, resp, hf_key, oa_key) ==
    LET r == sentiment_attempt(resp, a.sentiment)
        b == [a EXCEPT !.sentiment = r.sentiment,
                       !.calls = Append(@, Call("huggingface", "sentiment", sentiment_models[a.i],
                                                huggingface_inputs(a.text), resp))]
    IN IF r.stop \/ a.i = Len(sentiment_models)
       THEN an_huggingface_done(b, hf_key, oa_key)
       ELSE [b EXCEPT !.i = a.i + 1]

\* the answer of the OpenAI call arrives
an_openai_response(a, resp, hf_key, oa_key) ==
    LET r == openai_result(resp)
        b == [a EXCEPT !.calls = Append(@, Call("openai", "both", openai_model,
                                                openai_prompt_text(a.text), resp))]
    IN IF r.raised
       THEN an_raise(b, hf_key, oa_key)
       ELSE [b EXCEPT !.pc = "returned",
                      !.result = [source |-> "openai", summary |-> r.summary,
                                  sentiment |-> r.sentiment, fallback_summary |-> FALSE,
                                  keyword_sentiment |-> FALSE, judged |-> "none"]]

(***************************************************************************)
(* The upstream answers and the configurations analyze_text is run against *)
(***************************************************************************)
GenuineSummary == str_join(" ", [k \in 1..(IS_FALLBACK_MAX_WORDS + 1) |-> "s"])
ShortSummary == "A short summary"

PositiveScores == JList(<<JList(<<JDict([label |-> JStr("positive"), score |-> JNum(90)]),
                                  JDict([label |-> JStr("negative"), score |-> JNum(10)])>>)>>)
NegativeScores == JList(<<JDict([label |-> JStr("LABEL_0"), score |-> JNum(70)]),
                          JDict([label |-> JStr("LABEL_1"), score |-> JNum(30)])>>)
NeutralScores == JList(<<JList(<<JDict([label |-> JStr("neutral"), score |-> JNum(80)]),
                                 JDict([label |-> JStr("positive"), score |-> JNum(20)])>>)>>)

SummaryResponses ==
    { PostRaises,
      HttpResponse(503, JDict([error |-> JStr("Model is loading")])),
      HttpResponse(503, JDict([summary_text |-> JStr(GenuineSummary)])),
      HttpResponse(404, NotJson),
      HttpResponse(500, NotJson),
      HttpResponse(200, JDict([summary_text |-> JStr(GenuineSummary)])),
      HttpResponse(200, JList(<<JDict([summary_text |-> JStr(ShortSummary)])>>)),
      HttpResponse(200, JDict([summary_text |-> JNum(5)])),
      HttpResponse(200, JDict([summary_text |-> JList(<<JStr(ShortSummary)>>)])),
      HttpResponse(200, JDict([summary_text |-> JStr("")])),
      HttpResponse(200, JDict([error |-> JStr("Model is loading"),
                               summary_text |-> JStr(GenuineSummary)])),
      HttpResponse(200, NotJson),
      HttpResponse(410, JDict([outputs |-> JList(<<JStr(GenuineSummary)>>)])) }

SentimentResponses ==
    { PostRaises,
      HttpResponse(503, NotJson),
      HttpResponse(404, PositiveScores),
      HttpResponse(200, PositiveScores),
      HttpResponse(200, NegativeScores),
      HttpResponse(200, NeutralScores),
      HttpResponse(200, JDict([error |-> JStr("Model is loading")])),
      HttpResponse(200, NotJson),
      HttpResponse(410, JDict([outputs |-> NegativeScores])) }

OpenAIContent(content) ==
    JDict([choices |-> JList(<<JDict([message |-> JDict([content |-> JStr(content)])])>>)])

OpenAIResponses ==
    { PostRaises,
      HttpResponse(500, NotJson),
      HttpResponse(200, JDict([error |-> JStr("quota")])),
      HttpResponse(200, OpenAIContent("Summary: " \o ShortSummary \o "\nSentiment: Negative")),
      HttpResponse(200, OpenAIContent("Sentiment: Positive")) }

\* longer than the 512 characters sent upstream, with keywords beyond them
LongText == Repeat("x", HF_INPUT_LIMIT) \o " awful awful"

MovieText == "This movie was absolutely wonderful and the acting was superb!"

AnalyzeTexts == {MovieText,
                 "Great product. Fast shipping.",
                 Words(FALLBACK_MAX_WORDS + 1) \o "!",
                 LongText}

HuggingFaceKeys == {JNull, JStr(""), JStr("  "), JStr("hf_key")}
OpenAIKeys == {JNull, JStr(""), JStr("  "), JStr(OPENAI_PLACEHOLDER_KEY), JStr("sk_key")}

\* no provider is ever called
NoUpstream == [summary |-> <<>>, sentiment |-> <<>>, openai |-> PostRaises]

\* a deterministic upstream: the answer to the call to each summary model, to
\* each sentiment model and to OpenAI
Stub(summary, sentiment, openai) ==
    [summary |-> summary, sentiment |-> sentiment, openai |-> openai]

Unavailable == HttpResponse(503, JDict([error |-> JStr("Model is loading")]))
GoodSummary == HttpResponse(200, JDict([summary_text |-> JStr(GenuineSummary)]))
GoodOpenAI ==
    HttpResponse(200, OpenAIContent("Summary: " \o ShortSummary \o "\nSentiment: Negative"))

\* what the chat completion can hold: the format asked for, a part of it
\* missing or empty, the labels or the words written differently or repeated,
\* no label at all
OpenAIContents ==
    { "Summary: " \o ShortSummary \o "\nSentiment: Negative",
      "Sentiment: Positive",
      "Summary:\nSentiment: Neutral",
      "Summary: " \o ShortSummary,
      "Summary: " \o ShortSummary \o "\nSentiment: positive",
      "Summary: " \o ShortSummary \o "\nSentiment: Positive, not Negative",
      " Summary: " \o ShortSummary \o "\nsentiment: Negative",
      "Summary: first\nSummary: " \o ShortSummary \o "\nSentiment: Positive\nSentiment: mixed",
      "Summary: a Summary: b\n\nSentiment:  Mostly Negative ",
      "The text is about a bad movie",
      "" }
\* only OpenAI is called
OpenAIStubs ==
    { Stub(<<PostRaises, PostRaises>>, <<PostRaises, PostRaises>>,
           HttpResponse(200, OpenAIContent(c))) : c \in OpenAIContents }

\* a model answering the very text of the placeholder
PlaceholderSummary == HttpResponse(200, JDict([summary_text |-> JStr(SUMMARY_UNAVAILABLE)]))

\* every provider down; every provider healthy; the summary models answering
\* a number where the summary should be
CoreStubs ==
    { Stub(<<PostRaises, PostRaises>>, <<PostRaises, PostRaises>>, PostRaises),
      Stub(<<Unavailable, Unavailable>>, <<Unavailable, Unavailable>>, HttpResponse(500, NotJson)),
      Stub(<<GoodSummary, GoodSummary>>,
           <<HttpResponse(200, PositiveScores), HttpResponse(200, PositiveScores)>>, GoodOpenAI),
      Stub(<<Unavailable, GoodSummary>>,
           <<HttpResponse(200, NeutralScores), HttpResponse(200, NeutralScores)>>, GoodOpenAI),
      Stub(<<HttpResponse(200, JDict([summary_text |-> JNum(5)])), Unavailable>>,
           <<Unavailable, Unavailable>>, PostRaises),
      Stub(<<HttpResponse(200, JDict([summary_text |-> JNum(5)])), Unavailable>>,
           <<Unavailable, Unavailable>>, GoodOpenAI) }

\* every pair of answers of the summary models, and every pair of answers of
\* the sentiment models, the other calls failing or succeeding
CascadeStubs ==
    { Stub(<<a, b>>, <<t, t>>, o) :
          a \in SummaryResponses, b \in SummaryResponses,
          t \in {Unavailable, HttpResponse(200, PositiveScores)},
          o \in {PostRaises, GoodOpenAI} }
    \cup
    { Stub(<<s, Unavailable>>, <<a, b>>, o) :
          s \in {Unavailable, GoodSummary, HttpResponse(200, JDict([summary_text |-> JNum(5)]))},
          a \in SentimentResponses, b \in SentimentResponses,
          o \in {PostRaises, GoodOpenAI} }
    \cup
    { Stub(<<s, s>>, <<Unavailable, Unavailable>>, o) :
          s \in {Unavailable, HttpResponse(200, JDict([summary_text |-> JNum(5)]))},
          o \in OpenAIResponses }
    \cup
    { Stub(<<PlaceholderSummary, Unavailable>>, <<t, t>>, PostRaises) :
          t \in {Unavailable, HttpResponse(200, NeutralScores), HttpResponse(200, PositiveScores)} }

(***************************************************************************)
(* SpecAnalyze: analyze_text invoked once on a text, under a               *)
(* configuration, against a stub upstream                                  *)
(***************************************************************************)
AnInit ==
    /\ fn = FnIdle
    /\ ApiIdle
    /\ RestIdle
    /\ \/ /\ HUGGINGFACE_API_KEY \in HuggingFaceKeys
          /\ OPENAI_API_KEY \in OpenAIKeys
          /\ upstream \in CoreStubs
          /\ \E text \in AnalyzeTexts : an = [AnIdle EXCEPT !.text = text]
       \/ /\ HUGGINGFACE_API_KEY \in {JNull, JStr("hf_key")}
          /\ OPENAI_API_KEY \in {JNull, JStr("sk_key")}
          /\ upstream \in CascadeStubs
          /\ an = [AnIdle EXCEPT !.text = MovieText]
       \/ /\ HUGGINGFACE_API_KEY = JNull
          /\ OPENAI_API_KEY = JStr("sk_key")
          /\ upstream \in OpenAIStubs
          /\ an = [AnIdle EXCEPT !.text = MovieText]

CallAnalyzeText ==
    /\ an.pc = "idle"
    /\ an' = an_begin(an.text, HUGGINGFACE_API_KEY, OPENAI_API_KEY)
    /\ UNCHANGED <<rest, keys, upstream, fn, api>>

SummaryModelAnswers ==
    /\ an.pc = "hf_summary"
    /\ an' = an_summary_response(an, upstream.summary[an.i])
    /\ UNCHANGED <<rest, keys, upstream, fn, api>>

SentimentModelAnswers ==
    /\ an.pc = "hf_sentiment"
    /\ an' = an_sentiment_response(an, upstream.sentiment[an.i],
                                   HUGGINGFACE_API_KEY, OPENAI_API_KEY)
    /\ UNCHANGED <<rest, keys, upstream, fn, api>>

OpenAIAnswers ==
    /\ an.pc = "openai"
    /\ an' = an_openai_response(an, upstream.openai, HUGGINGFACE_API_KEY, OPENAI_API_KEY)
    /\ UNCHANGED <<rest, keys, upstream, fn, api>>

AnNext == CallAnalyzeText \/ SummaryModelAnswers \/ SentimentModelAnswers \/ OpenAIAnswers

SpecAnalyze == AnInit /\ [][AnNext]_vars

\* every awaited post returns or times out (httpx.AsyncClient(timeout=30.0)),
\* so the step that receives its answer is taken, and the event loop runs a
\* coroutine that was called
LiveStubs ==
    CoreStubs \cup
    { Stub(<<a, b>>, <<t, u>>, o) :
          a \in {Unavailable, PostRaises}, b \in {Unavailable, GoodSummary},
          t \in {PostRaises, HttpResponse(200, NeutralScores)},
          u \in {Unavailable, HttpResponse(200, NegativeScores)},
          o \in {PostRaises, GoodOpenAI} }
AnLiveInit ==
    /\ fn = FnIdle
    /\ ApiIdle
    /\ RestIdle
    /\ HUGGINGFACE_API_KEY \in {JNull, JStr("hf_key")}
    /\ OPENAI_API_KEY \in {JNull, JStr("sk_key")}
    /\ upstream \in LiveStubs
    /\ an = [AnIdle EXCEPT !.text = MovieText]
AwaitingAnswer == an.pc \in {"hf_summary", "hf_sentiment", "openai"}
AnswerArrives == SummaryModelAnswers \/ SentimentModelAnswers \/ OpenAIAnswers
\* weak fairness of both kinds of step; for AnswerArrives it is written out,
\* WF_vars(A) being []<>~ENABLED <<A>>_vars \/ []<><<A>>_vars, with the position
\* that enables the step in place of ENABLED
SpecAnalyzeLive ==
    /\ AnLiveInit
    /\ [][AnNext]_vars
    /\ WF_vars(CallAnalyzeText)
    /\ ([]<>~AwaitingAnswer \/ []<><<AnswerArrives>>_vars)

(***************************************************************************)
(* SpecAgain: analyze_text invoked again and again on the same text, under *)
(* the same configuration, against the same stub upstream                  *)
(***************************************************************************)
MaxRuns == 2        \* invocations whose outcome is kept

\* what the caller of analyze_text gets, and the calls the invocation made
an_outcome(a) ==
    [raised |-> a.pc = "raised", error |-> a.error, summary |-> a.result.summary,
     sentiment |-> a.result.sentiment, calls |-> a.calls]

\* an invocation that goes on with the calls of the one before it
an_again_keeps_calls(a, hf_key, oa_key) ==
    [an_begin(a.text, hf_key, oa_key) EXCEPT !.calls = a.calls]

\* the next "await analyze_text(text)": the function holds its state in
\* locals and assigns no module-level name, so it starts as the first did
an_again(a, hf_key, oa_key) == an_begin(a.text, hf_key, oa_key)

AgainInit ==
    /\ HUGGINGFACE_API_KEY \in HuggingFaceKeys
    /\ OPENAI_API_KEY \in OpenAIKeys
    /\ upstream \in CoreStubs
    /\ \E text \in AnalyzeTexts : an = [AnIdle EXCEPT !.text = text]
    /\ fn = FnIdle
    /\ ApiIdle
    /\ RestIdle

AnalyzeTextAgain ==
    /\ an.pc \in {"returned", "raised"}
    /\ Len(runs) < MaxRuns
    /\ runs' = Append(runs, an_outcome(an))
    /\ an' = an_again(an, HUGGINGFACE_API_KEY, OPENAI_API_KEY)
    /\ UNCHANGED <<keys, upstream, fn, api, users, signups, registered, sessions>>

AgainNext == AnNext \/ AnalyzeTextAgain

SpecAgain == AgainInit /\ [][AgainNext]_vars

(***************************************************************************)
(* analyze_text run to its end: what "await analyze_text(text)" gives back *)
(***************************************************************************)
an_step(a, up, hf_key, oa_key) ==
    IF a.pc = "idle" THEN an_begin(a.text, hf_key, oa_key)
    ELSE IF a.pc = "hf_summary" THEN an_summary_response(a, up.summary[a.i])
    ELSE IF a.pc = "hf_sentiment"
    THEN an_sentiment_response(a, up.sentiment[a.i], hf_key, oa_key)
    ELSE IF a.pc = "openai" THEN an_openai_response(a, up.openai, hf_key, oa_key)
    ELSE a

RECURSIVE an_run(_, _, _, _)
an_run(a, up, hf_key, oa_key) ==
    IF a.pc \in {"returned", "raised"} THEN a
    ELSE an_run(an_step(a, up, hf_key, oa_key), up, hf_key, oa_key)

analyze_text(text, up, hf_key, oa_key) ==
    LET a == an_run([AnIdle EXCEPT !.text = text], up, hf_key, oa_key)
    IN [raised |-> a.pc = "raised", error |-> a.error,
        summary |-> a.result.summary, sentiment |-> a.result.sentiment]

(***************************************************************************)
(* The content router: create_content, delete_content and the background   *)
(* task process_content_ai                                                 *)
(***************************************************************************)
MaxContents == 2    \* rows created in a behaviour

Users == {1, 2}
NegativeText == "I hate this. It was awful and boring."
ContentTexts == {MovieText, NegativeText, "  ", ""}

HTTP_201_CREATED == 201
HTTP_204_NO_CONTENT == 204
HTTP_400_BAD_REQUEST == 400
HTTP_404_NOT_FOUND == 404

\* Content(user_id=..., text=...) once committed: summary and sentiment NULL
Content(id, user_id, text) ==
    [id |-> id, user_id |-> user_id, text |-> text, summary |-> JNull, sentiment |-> JNull]

\* a task that is already past its await when it is scheduled
add_task_started(content_id, text) ==
    [content_id |-> content_id, text |-> text, pc |-> "analyzed",
     result |-> [raised |-> FALSE, error |-> "none", summary |-> JNull, sentiment |-> NEUTRAL],
     outcome |-> "none", commits |-> 0]

\* background_tasks.add_task(process_content_ai, new_content.id, content_data.text)
\* pc: scheduled, analyzed (analyze_text returned, the row not yet queried), done
add_task(content_id, text) ==
    [content_id |-> content_id, text |-> text, pc |-> "scheduled",
     result |-> [raised |-> FALSE, error |-> "none", summary |-> JNull, sentiment |-> NEUTRAL],
     outcome |-> "none", commits |-> 0]

\* a check that forgets strip()
text_is_empty_unstripped(text) == text = ""

\* "if not content_data.text or not content_data.text.strip()"
text_is_empty(text) == text = "" \/ str_strip(text) = ""

\* every provider failing every call; a healthy upstream; a summary model
\* answering a number where the summary should be
ContentStubs == CoreStubs
ContentKeys == [hf |-> {JNull, JStr("hf_key")}, oa |-> {JNull, JStr("sk_key")}]

\* analyze_text tabulated over the texts, upstreams and keys of the router's
\* behaviours, and the lookup of what one await of it gives
analyze_text_results ==
    { [text |-> text, up |-> up, hf_key |-> hf_key, oa_key |-> oa_key,
       result |-> analyze_text(text, up, hf_key, oa_key)] :
          text \in ContentTexts, up \in ContentStubs,
          hf_key \in ContentKeys.hf, oa_key \in ContentKeys.oa }

await_analyze_text(text, up, hf_key, oa_key) ==
    (CHOOSE r \in analyze_text_results :
         r.text = text /\ r.up = up /\ r.hf_key = hf_key /\ r.oa_key = oa_key).result

\* an update that writes the summary alone
assign_summary_only(row, result) ==
    [row EXCEPT !.summary = result.summary]

\* an update that writes a column the task has no business with
assign_result_and_owner(row, result) ==
    [row EXCEPT !.summary = result.summary, !.sentiment = JStr(result.sentiment),
                !.user_id = 0]

\* "content.summary = summary_value; content.sentiment = sentiment_value"
assign_result(row, result) ==
    [row EXCEPT !.summary = result.summary, !.sentiment = JStr(result.sentiment)]

\* the except branch of process_content_ai: db.rollback() drops what the
\* session holds, the table is as it was
rollback(table) == table

\* a task that is scheduled again when its analysis raised
after_await_retries(task, result) ==
    IF result.raised
    THEN [task EXCEPT !.pc = "scheduled", !.result = result]
    ELSE [task EXCEPT !.pc = "analyzed", !.result = result]

\* a task that goes on to the update whatever the await gave
after_await_ignores_raise(task, result) ==
    [task EXCEPT !.pc = "analyzed", !.result = result]

\* process_content_ai when "await analyze_text(text)" is over: an exception
\* lands in the except branch, which ends the task; a result goes on to the query
after_await(task, result) ==
    IF result.raised
    THEN [task EXCEPT !.pc = "done", !.result = result, !.outcome = "rolled_back"]
    ELSE [task EXCEPT !.pc = "analyzed", !.result = result]

create_content(user, text) ==
    /\ next_id <= MaxContents
    /\ IF text_is_empty(text)
       THEN /\ response' = [status |-> HTTP_400_BAD_REQUEST]
            /\ UNCHANGED <<contents, next_id, tasks>>
       ELSE /\ contents' = contents @@ (next_id :> Content(next_id, user, text))
            /\ tasks' = tasks @@ (next_id :> add_task(next_id, text))
            /\ next_id' = next_id + 1
            /\ response' = [status |-> HTTP_201_CREATED]
    /\ UNCHANGED <<rest, keys, upstream, an, fn>>

\* a delete that answers 204 and leaves the row in the table
delete_content_keeps_row(user, content_id) ==
    /\ IF content_id \in DOMAIN contents /\ contents[content_id].user_id = user
       THEN response' = [status |-> HTTP_204_NO_CONTENT]
       ELSE response' = [status |-> HTTP_404_NOT_FOUND]
    /\ UNCHANGED <<rest, keys, upstream, an, fn, contents, next_id, tasks>>

delete_content(user, content_id) ==
    /\ IF content_id \in DOMAIN contents /\ contents[content_id].user_id = user
       THEN /\ contents' = [id \in DOMAIN contents \ {content_id} |-> contents[id]]
            /\ response' = [status |-> HTTP_204_NO_CONTENT]
       ELSE /\ response' = [status |-> HTTP_404_NOT_FOUND]
            /\ UNCHANGED contents
    /\ UNCHANGED <<rest, keys, upstream, an, fn, next_id, tasks>>

\* process_content_ai up to the end of "await analyze_text(text)"; when it
\* raises, the handler rolls back and the task is over
process_content_ai_analyze(content_id) ==
    /\ content_id \in DOMAIN tasks
    /\ tasks[content_id].pc = "scheduled"
    /\ LET result == await_analyze_text(tasks[content_id].text, upstream,
                                        HUGGINGFACE_API_KEY, OPENAI_API_KEY)
       IN /\ tasks' = [tasks EXCEPT ![content_id] = after_await(@, result)]
          /\ contents' = IF result.raised THEN rollback(contents) ELSE contents
    /\ UNCHANGED <<rest, keys, upstream, an, fn, next_id, response>>

\* process_content_ai after the await: query the row, assign both fields and
\* commit, or report the row missing
process_content_ai_update(content_id) ==
    /\ content_id \in DOMAIN tasks
    /\ tasks[content_id].pc = "analyzed"
    /\ IF content_id \in DOMAIN contents
       THEN /\ contents' = [contents EXCEPT
                               ![content_id] = assign_result(@, tasks[content_id].result)]
            /\ tasks' = [tasks EXCEPT ![content_id].pc = "done",
                                      ![content_id].outcome = "updated",
                                      ![content_id].commits = @ + 1]
       ELSE /\ tasks' = [tasks EXCEPT ![content_id].pc = "done",
                                      ![content_id].outcome = "not_found"]
            /\ UNCHANGED contents
    /\ UNCHANGED <<rest, keys, upstream, an, fn, next_id, response>>

Init ==
    /\ HUGGINGFACE_API_KEY \in ContentKeys.hf
    /\ OPENAI_API_KEY \in ContentKeys.oa
    /\ upstream \in ContentStubs
    /\ an = AnIdle
    /\ fn = FnIdle
    /\ ApiIdle
    /\ RestIdle

CreateContent == \E user \in Users, text \in ContentTexts : create_content(user, text)
DeleteContent == \E user \in Users, content_id \in 1..MaxContents :
                     delete_content(user, content_id)
ProcessContentAnalyze == \E content_id \in 1..MaxContents :
                             process_content_ai_analyze(content_id)
ProcessContentUpdate == \E content_id \in 1..MaxContents :
                            process_content_ai_update(content_id)

Next == CreateContent \/ DeleteContent \/ ProcessContentAnalyze \/ ProcessContentUpdate

Spec == Init /\ [][Next]_vars

(***************************************************************************)
(* Authentication: app/auth.py                                             *)
(***************************************************************************)
HTTP_200_OK == 200
HTTP_401_UNAUTHORIZED == 401
BCRYPT_MAX_BYTES == 72

ShortPassword == "secret1"
OtherPassword == "hunter22"
\* 73 characters, one more than bcrypt takes
LongPassword == Repeat("a", BCRYPT_MAX_BYTES + 1)
\* hashlib.sha256(LongPassword.encode("utf-8")).hexdigest()
LongPasswordDigest == "0e058e3f7d0439f9054d59c735587ae99655f6473a234ce494d82b5586f7eac6"

\* hashlib.sha256(password_bytes).hexdigest(), tabulated over the passwords
\* of the model that are long enough to be handed to it
sha256_hexdigest(password_bytes) ==
    CASE password_bytes = LongPassword -> LongPasswordDigest

\* the passwords are ASCII: one byte per character
_prepare_password_for_bcrypt(password) ==
    IF Len(password) > BCRYPT_MAX_BYTES THEN sha256_hexdigest(password) ELSE password

\* "if len(password_bytes) > 72: password_bytes = password_bytes[:72]"
truncate_for_bcrypt(password_bytes) ==
    IF Len(password_bytes) > BCRYPT_MAX_BYTES
    THEN SubSeq(password_bytes, 1, BCRYPT_MAX_BYTES)
    ELSE password_bytes

\* bcrypt.gensalt() draws the salt; bcrypt.hashpw keeps it in the hash, next
\* to a digest that stands here for the bytes it was computed from
Salts == {"salt1", "salt2"}
bcrypt_hashpw(password_bytes, salt) == [salt |-> salt, digest |-> password_bytes]
bcrypt_checkpw(password_bytes, hashed) == bcrypt_hashpw(password_bytes, hashed.salt) = hashed

get_password_hash(password, salt) ==
    bcrypt_hashpw(truncate_for_bcrypt(_prepare_password_for_bcrypt(password)), salt)

verify_password(plain_password, hashed_password) ==
    bcrypt_checkpw(truncate_for_bcrypt(_prepare_password_for_bcrypt(plain_password)),
                   hashed_password)

\* a row of the users table
User(id, username, email, hashed_password) ==
    [id |-> id, username |-> username, email |-> email, hashed_password |-> hashed_password]

\* db.query(User).filter(User.username == username).first(): the rows in
\* table order, None (JNull) when there is none
rows_where_username(table, username) ==
    SelectSeq(table, LAMBDA row : row.username = username)
rows_where_email(table, email) ==
    SelectSeq(table, LAMBDA row : row.email = email)

\* a JWT: its claims, the key it is signed with, and whether it can be
\* decoded at all; exp is "future" or "past" at the time it is presented
SECRET_KEY == "SECRET_KEY"
Jwt(sub, exp, key) == [well_formed |-> TRUE, sub |-> sub, exp |-> exp, key |-> key]
MalformedToken == [well_formed |-> FALSE, sub |-> JNull, exp |-> "future", key |-> "none"]

\* create_access_token: exp = utcnow() + the expiry delta, signed with SECRET_KEY
create_access_token(data) == Jwt(data.sub, "future", SECRET_KEY)

\* a decoder that does not look at exp
jwt_decode_raises_unless_expired(token, key) ==
    ~token.well_formed \/ token.key # key

\* jwt.decode(token, SECRET_KEY, algorithms=[ALGORITHM]) raises JWTError on a
\* token it cannot parse, on a signature of another key and on a past exp
jwt_decode_raises(token, key) ==
    ~token.well_formed \/ token.key # key \/ token.exp = "past"

\* the Authorization header of a request: none, or "Bearer <token>"
NoCredentials == [scheme |-> "none"]
Bearer(token) == [scheme |-> "Bearer", token |-> token]

CredentialsException ==
    [ok |-> FALSE, status |-> HTTP_401_UNAUTHORIZED, detail |-> "Could not validate credentials"]

\* HTTPBearer() on a request that carries no Authorization header: the
\* request never reaches get_current_user
http_bearer_rejects(authorization) == authorization.scheme # "Bearer"
NotAuthenticated ==
    [ok |-> FALSE, status |-> HTTP_401_UNAUTHORIZED, detail |-> "Not authenticated"]

\* Depends(security) and then get_current_user: the user row, or the 401
get_current_user(authorization, table) ==
    IF http_bearer_rejects(authorization) THEN NotAuthenticated
    ELSE IF jwt_decode_raises(authorization.token, SECRET_KEY) THEN CredentialsException
    ELSE IF authorization.token.sub = JNull THEN CredentialsException
    ELSE LET found == rows_where_username(table, authorization.token.sub.s)
         IN IF found = <<>> THEN CredentialsException
            ELSE [ok |-> TRUE, user |-> found[1]]

(***************************************************************************)
(* The content router behind authentication: create_content, get_contents, *)
(* get_content and delete_content as requests carrying an Authorization    *)
(* header                                                                  *)
(***************************************************************************)
DEFAULT_LIMIT == 100

\* response_model=ContentResponse: the fields of the row the client is sent
ContentResponse(row) ==
    [id |-> row.id, text |-> row.text, summary |-> row.summary, sentiment |-> row.sentiment]

\* a filter that lets every user's rows through
owned_by_anyone(row, user_id) == TRUE

\* "Content.user_id == current_user.id"
owned_by(row, user_id) == row.user_id = user_id

\* db.query(Content).filter(Content.user_id == current_user.id): the rows of
\* the user in id order; last_id is the highest id handed out
query_contents(table, last_id, user_id) ==
    LET ids == SelectSeq([id \in 1..last_id |-> id],
                         LAMBDA id : id \in DOMAIN table /\ owned_by(table[id], user_id))
    IN [i \in 1..Len(ids) |-> table[ids[i]]]

\* ".offset(skip).limit(limit).all()"
offset_limit(rows, skip, limit) ==
    SubSeq(rows, skip + 1, IF skip + limit < Len(rows) THEN skip + limit ELSE Len(rows))

\* the answer of a dependency that raised: nothing is read or written
unauthorized(request, exception) ==
    /\ response' = [status |-> exception.status, request |-> request,
                    body |-> [detail |-> exception.detail]]
    /\ UNCHANGED <<contents, next_id, tasks, rest, keys, upstream, an, fn>>

get_contents(user_id, skip, limit) ==
    /\ LET rows == query_contents(contents, next_id - 1, user_id)
       IN response' = [status |-> HTTP_200_OK, request |-> "get_contents",
                       body |-> [contents |-> [i \in 1..Len(offset_limit(rows, skip, limit)) |->
                                                  ContentResponse(offset_limit(rows, skip, limit)[i])],
                                 total |-> Len(rows)]]
    /\ UNCHANGED <<contents, next_id, tasks, rest, keys, upstream, an, fn>>

get_content(user_id, content_id) ==
    /\ IF content_id \in DOMAIN contents /\ owned_by(contents[content_id], user_id)
       THEN response' = [status |-> HTTP_200_OK, request |-> "get_content",
                         body |-> ContentResponse(contents[content_id])]
       ELSE response' = [status |-> HTTP_404_NOT_FOUND, request |-> "get_content",
                         body |-> [detail |-> "Content not found"]]
    /\ UNCHANGED <<contents, next_id, tasks, rest, keys, upstream, an, fn>>

create_content_request(authorization, text) ==
    LET current_user == get_current_user(authorization, users)
    IN IF current_user.ok
       THEN create_content(current_user.user.id, text)
       ELSE unauthorized("create_content", current_user)

get_contents_request(authorization, skip, limit) ==
    LET current_user == get_current_user(authorization, users)
    IN IF current_user.ok
       THEN get_contents(current_user.user.id, skip, limit)
       ELSE unauthorized("get_contents", current_user)

get_content_request(authorization, content_id) ==
    LET current_user == get_current_user(authorization, users)
    IN IF current_user.ok
       THEN get_content(current_user.user.id, content_id)
       ELSE unauthorized("get_content", current_user)

delete_content_request(authorization, content_id) ==
    LET current_user == get_current_user(authorization, users)
    IN IF current_user.ok
       THEN delete_content(current_user.user.id, content_id)
       ELSE unauthorized("delete_content", current_user)

\* the users table two signups leave, and the Authorization headers the
\* requests carry: none, a token that is no JWT, a token signed with another
\* key, an expired token, a token without sub, a token of nobody, and the
\* tokens login hands the two users
AliceRow == User(1, "alice", "alice@example.com", get_password_hash(ShortPassword, "salt1"))
BobRow == User(2, "bob", "bob@example.com", get_password_hash(OtherPassword, "salt2"))
RegisteredUsers == <<AliceRow, BobRow>>
TokenOf(user) == Bearer(create_access_token([sub |-> JStr(user.username)]))
InvalidCredentials ==
    { NoCredentials,
      Bearer(MalformedToken),
      Bearer(Jwt(JStr("alice"), "future", "another key")),
      Bearer(Jwt(JStr("alice"), "past", SECRET_KEY)),
      Bearer(Jwt(JNull, "future", SECRET_KEY)),
      Bearer(Jwt(JStr("mallory"), "future", SECRET_KEY)) }
ValidCredentials == { TokenOf(AliceRow), TokenOf(BobRow) }
Credentials == InvalidCredentials \cup ValidCredentials
ApiTexts == {MovieText, "  "}
Skips == {0, 1}
Limits == {1, DEFAULT_LIMIT}
\* every provider healthy
HealthyStub ==
    Stub(<<GoodSummary, GoodSummary>>,
         <<HttpResponse(200, PositiveScores), HttpResponse(200, PositiveScores)>>, GoodOpenAI)

(***************************************************************************)
(* SpecApi: authenticated and unauthenticated requests to the content      *)
(* router, with the background tasks they schedule                         *)
(***************************************************************************)
ApiInit ==
    /\ HUGGINGFACE_API_KEY = JStr("hf_key")
    /\ OPENAI_API_KEY = JNull
    /\ upstream = HealthyStub
    /\ an = AnIdle
    /\ fn = FnIdle
    /\ ApiIdle
    /\ runs = <<>>
    /\ users = RegisteredUsers
    /\ signups = {}
    /\ sessions = <<>>
    /\ registered = ("alice" :> ShortPassword) @@ ("bob" :> OtherPassword)

CreateContentRequest ==
    \E authorization \in Credentials, text \in ApiTexts :
        create_content_request(authorization, text)
GetContentsRequest ==
    \E authorization \in Credentials, skip \in Skips, limit \in Limits :
        get_contents_request(authorization, skip, limit)
GetContentRequest ==
    \E authorization \in Credentials, content_id \in 1..MaxContents :
        get_content_request(authorization, content_id)
DeleteContentRequest ==
    \E authorization \in Credentials, content_id \in 1..MaxContents :
        delete_content_request(authorization, content_id)

ApiNext ==
    \/ CreateContentRequest
    \/ GetContentsRequest
    \/ GetContentRequest
    \/ DeleteContentRequest
    \/ ProcessContentAnalyze
    \/ ProcessContentUpdate

SpecApi == ApiInit /\ [][ApiNext]_vars

(***************************************************************************)
(* The auth router: signup and login (app/routers/auth.py)                 *)
(***************************************************************************)
\* the requests that can be in the handler at once, one per worker
Clients == {1, 2}
Usernames == {"alice", "bob"}
Emails == {"alice@example.com", "bob@example.com"}
\* UserSignup takes passwords of 6 to 200 characters; UserLogin takes any
SignupPasswords == {ShortPassword, LongPassword}
LoginPasswords == {ShortPassword, LongPassword, LongPasswordDigest}
UserSignup == [username : Usernames, email : Emails, password : SignupPasswords]
UserLogin == [username : Usernames, password : LoginPasswords]

\* {"access_token": access_token, "token_type": "bearer"}
Token(access_token) == [access_token |-> access_token, token_type |-> "bearer"]

AuthError(request, status, detail) ==
    [status |-> status, request |-> request, body |-> [detail |-> detail]]

\* a users table without unique indexes
unique_violation_never(table, new_user) == FALSE

\* unique=True on username and on email: the INSERT the commit flushes raises
\* IntegrityError when a committed row holds either
unique_violation(table, new_user) ==
    \/ rows_where_username(table, new_user.username) # <<>>
    \/ rows_where_email(table, new_user.email) # <<>>

\* signup up to "new_user = User(...)": the two existence checks, each
\* answering 400, and the hash of the password
signup_check(client, user_data, salt) ==
    /\ \A s \in signups : s.client # client
    /\ IF rows_where_username(users, user_data.username) # <<>>
       THEN /\ response' = AuthError("signup", HTTP_400_BAD_REQUEST, "Username already registered")
            /\ UNCHANGED signups
       ELSE IF rows_where_email(users, user_data.email) # <<>>
       THEN /\ response' = AuthError("signup", HTTP_400_BAD_REQUEST, "Email already registered")
            /\ UNCHANGED signups
       ELSE /\ signups' = signups \cup
                   {[client |-> client, password |-> user_data.password,
                     new_user |-> [username |-> user_data.username, email |-> user_data.email,
                                   hashed_password |-> get_password_hash(user_data.password, salt)]]}
            /\ UNCHANGED response
    /\ UNCHANGED <<users, registered, runs, keys, upstream, an, fn, contents, next_id, tasks,
                 sessions>>

\* signup from db.add on: the commit, which the unique indexes can refuse,
\* the rollback and 400 that answer the refusal, and the token that answers
\* the commit
signup_commit(client) ==
    /\ \E s \in signups :
          /\ s.client = client
          /\ signups' = signups \ {s}
          /\ IF unique_violation(users, s.new_user)
             THEN /\ response' = AuthError("signup", HTTP_400_BAD_REQUEST, "User already exists")
                  /\ UNCHANGED <<users, registered>>
             ELSE /\ users' = Append(users, User(Len(users) + 1, s.new_user.username,
                                                 s.new_user.email, s.new_user.hashed_password))
                  /\ registered' = registered @@ (s.new_user.username :> s.password)
                  /\ response' =
                        [status |-> HTTP_201_CREATED, request |-> "signup",
                         body |-> Token(create_access_token([sub |-> JStr(s.new_user.username)]))]
    /\ UNCHANGED <<runs, keys, upstream, an, fn, contents, next_id, tasks, sessions>>

login(user_credentials) ==
    /\ LET found == rows_where_username(users, user_credentials.username)
       IN IF found = <<>> \/ ~verify_password(user_credentials.password, found[1].hashed_password)
          THEN response' = AuthError("login", HTTP_401_UNAUTHORIZED, "Incorrect username or password")
          ELSE response' =
                  [status |-> HTTP_200_OK, request |-> "login",
                   body |-> Token(create_access_token([sub |-> JStr(found[1].username)]))]
    /\ UNCHANGED <<rest, keys, upstream, an, fn, contents, next_id, tasks>>

(***************************************************************************)
(* SpecAuth: signups, checked and committed by concurrent workers, and     *)
(* logins                                                                  *)
(***************************************************************************)
AuthInit ==
    /\ HUGGINGFACE_API_KEY = JNull
    /\ OPENAI_API_KEY = JNull
    /\ upstream = NoUpstream
    /\ an = AnIdle
    /\ fn = FnIdle
    /\ ApiIdle
    /\ RestIdle

SignupCheck ==
    \E client \in Clients, user_data \in UserSignup, salt \in Salts :
        signup_check(client, user_data, salt)
SignupCommit == \E client \in Clients : signup_commit(client)
Login == \E user_credentials \in UserLogin : login(user_credentials)

AuthNext == SignupCheck \/ SignupCommit \/ Login

SpecAuth == AuthInit /\ [][AuthNext]_vars

(***************************************************************************)
(* Inputs of the pure helpers                                              *)
(***************************************************************************)
MaxOver == 2        \* texts hold up to FALLBACK_MAX_WORDS + MaxOver words per run
MaxKwWords == 3     \* keyword texts hold up to MaxKwWords vocabulary words

WordRuns == {Words(n) : n \in (FALLBACK_MAX_WORDS - 1)..(FALLBACK_MAX_WORDS + MaxOver)}

Heads == {"", "Hi", "Great product", "abcdefghijklmno", "abcdefghijklmnop",
          "Summary not available"} \cup WordRuns
Terminators == {"", ".", "!", "?", "...", " ."}
Tails == {"", " Fast shipping."} \cup {" " \o r : r \in WordRuns}
Pads == {"", " "}

SummaryTexts == {p \o h \o t \o r : p \in Pads, h \in Heads, t \in Terminators, r \in Tails}

KwVocabulary == {"love", "hate", "lovely", "GREAT", "disgusting"}
KwSeparators == {" ", "-", ""}
KwTexts == {str_join(sep, ws) : sep \in KwSeparators,
                                ws \in UNION {[1..n -> KwVocabulary] : n \in 1..MaxKwWords}}

SpecExamples == {"Great product. Fast shipping.",
                 "I love this, it is amazing and great",
                 "I hate this terrible awful product",
                 "The table is brown",
                 "lovely-ish",
                 "This movie was absolutely wonderful and the acting was superb!"}

SummaryInputs == SummaryTexts \cup SpecExamples
KeywordInputs == KwTexts \cup SpecExamples

(***************************************************************************)
(* SpecFn: the pure helpers applied to every input text                    *)
(***************************************************************************)
\* what the summary cascade can leave in hand: nothing, or the text a model
\* returned
SummariesInHand == {JNull, JStr(SUMMARY_UNAVAILABLE), JStr(ShortSummary)}
\* the tail of analyze_with_huggingface about to run on a text, with the
\* summary and the sentiment the two cascades left
TailIdle(text, summary, sentiment) ==
    [FnIdle EXCEPT !.op = "tail", !.text = text]
        @@ [in_hand |-> summary, cascade |-> sentiment, tail |-> NoResult]

FnInit ==
    /\ HUGGINGFACE_API_KEY = JNull
    /\ OPENAI_API_KEY = JNull
    /\ upstream = NoUpstream
    /\ an = AnIdle
    /\ ApiIdle
    /\ RestIdle
    /\ \/ \E t \in SummaryInputs : fn = [FnIdle EXCEPT !.op = "summary", !.text = t]
       \/ \E t \in KeywordInputs : fn = [FnIdle EXCEPT !.op = "keywords", !.text = t]
       \/ \E t \in SummaryInputs, s \in SummariesInHand, m \in SentimentType :
              fn = TailIdle(t, s, m)

ApplyFallbackSummary ==
    /\ fn.op = "summary" /\ ~fn.done
    /\ fn' = [fn EXCEPT !.done = TRUE,
                        !.summary = generate_fallback_summary(fn.text)]
    /\ UNCHANGED <<rest, keys, upstream, an, api>>

ApplyKeywordSentiment ==
    /\ fn.op = "keywords" /\ ~fn.done
    /\ fn' = [fn EXCEPT !.done = TRUE,
                        !.sentiment = detect_sentiment_keywords(fn.text),
                        !.pos = positive_count(fn.text),
                        !.neg = negative_count(fn.text)]
    /\ UNCHANGED <<rest, keys, upstream, an, api>>

ApplyHuggingFaceTail ==
    /\ fn.op = "tail" /\ ~fn.done
    /\ fn' = [fn EXCEPT !.done = TRUE,
                        !.tail = huggingface_result(fn.text, fn.in_hand, fn.cascade)]
    /\ UNCHANGED <<rest, keys, upstream, an, api>>

FnNext == ApplyFallbackSummary \/ ApplyKeywordSentiment \/ ApplyHuggingFaceTail

SpecFn == FnInit /\ [][FnNext]_vars

(***************************************************************************)
(* Bodies a candidate model can answer with                                *)
(***************************************************************************)
\* the objects that can stand where a summary object is expected
SummaryObjects ==
    { JDict([summary_text |-> JStr("sum")]),
      JDict([generated_text |-> JStr("gen")]),
      JDict([summary_text |-> JStr("sum"), generated_text |-> JStr("gen")]),
      JDict([summary_text |-> JStr(""), generated_text |-> JStr("gen")]),
      JDict([summary_text |-> JStr("")]),
      JDict([text |-> JStr("other")]) }
FirstElements == SummaryObjects \cup {JStr("bare"), JStr(""), JNum(5)}

SummaryBodies ==
    { JDict([outputs |-> JList(<<first>>)]) : first \in FirstElements }
    \cup { JDict([outputs |-> JList(<<first>>), summary_text |-> JStr("top")]) :
               first \in {JStr("bare"), JNum(5), JDict([text |-> JStr("other")])} }
    \cup { JDict([outputs |-> JList(<<>>)]),
           JDict([outputs |-> JStr("bare")]),
           JDict([outputs |-> JList(<<>>), summary_text |-> JStr("top")]),
           JDict([outputs |-> JList(<<>>), generated_text |-> JStr("top")]) }
    \cup SummaryObjects
    \cup { JList(<<first>>) : first \in FirstElements }
    \cup { JList(<<JStr("bare"), JStr("second")>>), JList(<<>>) }
    \cup { JStr("bare"), JStr(""), JNum(7), JNull, NotJson }
    \cup { JDict([error |-> JStr("Model is loading")]),
           JDict([error |-> JStr("Model is loading"), summary_text |-> JStr("sum")]),
           JDict([error |-> JStr("Model is loading"), outputs |-> JList(<<JStr("bare")>>)]) }

\* {label, score} entries; a score is a percentage
Entry(label, score) == JDict([label |-> JStr(label), score |-> JNum(score)])
Labels == {"POSITIVE", "positive", "Pos", "LABEL_1", "LABEL_2",
           "NEGATIVE", "negative", "neg", "LABEL_0",
           "neutral", "NEUTRAL", "", "mixed",
           "opposition", "negligible", "LABEL_10"}
ScoreLists ==
    { JList(<<Entry(label, 90)>>) : label \in Labels }
    \cup { JList(<<Entry(a, x), Entry(b, y)>>) :
               a \in {"positive", "neutral"}, b \in {"negative", "neutral"}, x \in {10, 90}, y \in {10, 90} }
    \cup { JList(<<Entry("negative", 40), Entry("positive", 50), Entry("neutral", 50)>>),
           JList(<<Entry("neutral", 50), Entry("negative", 50), Entry("positive", 50)>>),
           JList(<<JDict([label |-> JStr("negative")]), Entry("positive", 0)>>),
           JList(<<JDict([score |-> JNum(90)]), Entry("negative", 10)>>) }

SentimentBodies ==
    { JList(<<scores>>) : scores \in ScoreLists }
    \cup { JDict([outputs |-> JList(<<scores>>)]) :
               scores \in {JList(<<Entry("positive", 90), Entry("negative", 10)>>),
                           JList(<<Entry("neutral", 90), Entry("negative", 10)>>),
                           JList(<<Entry("LABEL_0", 90)>>)} }
    \cup { JList(<<Entry("negative", 90), Entry("positive", 10)>>),
           JList(<<Entry("neutral", 90)>>),
           JList(<<>>),
           JList(<<JList(<<>>)>>),
           JList(<<JNum(5)>>),
           JList(<<JList(<<Entry("positive", 90), JStr("bare")>>)>>),
           JDict([outputs |-> JList(<<>>)]),
           JDict([label |-> JStr("positive"), score |-> JNum(90)]),
           JStr("positive"), JNull, NotJson }
    \cup { JDict([error |-> JStr("Model is loading")]),
           JDict([error |-> JStr("Model is loading"),
                  outputs |-> JList(<<JList(<<Entry("positive", 90)>>)>>)]) }

(***************************************************************************)
(* SpecNorm: one candidate of a cascade answering a body, with status 200  *)
(* and with status 410, the cascade having no value yet                    *)
(***************************************************************************)
NotApplied == [applied |-> FALSE]
NormIdle(op, body) ==
    [op |-> op, body |-> body, at200 |-> NotApplied, at410 |-> NotApplied,
     atOther |-> NotApplied]
\* statuses with a branch of their own (503, 404) and statuses of the final
\* else branch
OtherStatuses == {503, 404, 500, 201}

\* the first iteration of "for model in summary_models": summary is None
summary_of_answer(status, body) ==
    LET r == summary_attempt(HttpResponse(status, body), JNull)
    IN [applied |-> TRUE, value |-> r.summary, stop |-> r.stop]

\* the first iteration of "for model in sentiment_models": sentiment is NEUTRAL
sentiment_of_answer(status, body) ==
    LET r == sentiment_attempt(HttpResponse(status, body), NEUTRAL)
    IN [applied |-> TRUE, value |-> r.sentiment, stop |-> r.stop]

NormInit ==
    /\ HUGGINGFACE_API_KEY = JStr("hf_key")
    /\ OPENAI_API_KEY = JNull
    /\ upstream = NoUpstream
    /\ an = AnIdle
    /\ ApiIdle
    /\ RestIdle
    /\ \/ \E body \in SummaryBodies : fn = NormIdle("summary", body)
       \/ \E body \in SentimentBodies : fn = NormIdle("sentiment", body)

SummaryAnswer200 ==
    /\ fn.op = "summary" /\ ~fn.at200.applied
    /\ fn' = [fn EXCEPT !.at200 = summary_of_answer(200, fn.body)]
    /\ UNCHANGED <<rest, keys, upstream, an, api>>

SummaryAnswer410 ==
    /\ fn.op = "summary" /\ ~fn.at410.applied
    /\ fn' = [fn EXCEPT !.at410 = summary_of_answer(410, fn.body)]
    /\ UNCHANGED <<rest, keys, upstream, an, api>>

SentimentAnswer200 ==
    /\ fn.op = "sentiment" /\ ~fn.at200.applied
    /\ fn' = [fn EXCEPT !.at200 = sentiment_of_answer(200, fn.body)]
    /\ UNCHANGED <<rest, keys, upstream, an, api>>

SentimentAnswer410 ==
    /\ fn.op = "sentiment" /\ ~fn.at410.applied
    /\ fn' = [fn EXCEPT !.at410 = sentiment_of_answer(410, fn.body)]
    /\ UNCHANGED <<rest, keys, upstream, an, api>>

SummaryAnswerOther ==
    /\ fn.op = "summary" /\ ~fn.atOther.applied
    /\ \E status \in OtherStatuses :
           fn' = [fn EXCEPT !.atOther = [summary_of_answer(status, fn.body) EXCEPT !.applied = TRUE]
                                            @@ [status |-> status]]
    /\ UNCHANGED <<rest, keys, upstream, an, api>>

SentimentAnswerOther ==
    /\ fn.op = "sentiment" /\ ~fn.atOther.applied
    /\ \E status \in OtherStatuses :
           fn' = [fn EXCEPT !.atOther = [sentiment_of_answer(status, fn.body) EXCEPT !.applied = TRUE]
                                            @@ [status |-> status]]
    /\ UNCHANGED <<rest, keys, upstream, an, api>>

NormNext ==
    \/ SummaryAnswer200 \/ SummaryAnswer410 \/ SummaryAnswerOther
    \/ SentimentAnswer200 \/ SentimentAnswer410 \/ SentimentAnswerOther

SpecNorm == NormInit /\ [][NormNext]_vars

(***************************************************************************)
(* SpecTask: process_content_ai statement by statement, with the session   *)
(* of the request that scheduled it and the session of its own, deletes    *)
(* from other workers at any point, and a process that is interrupted      *)
(***************************************************************************)
\* db = SessionLocal(): get_db for a request, process_content_ai for a task
session_of_request(content_id) == <<"request", content_id>>
session_of_task(content_id) == <<"task", content_id>>
session_open(table, key) == (key :> "open") @@ table

\* a finally branch that forgets the session
session_close_skipped(table, key) == table

\* db.close()
session_close(table, key) == [table EXCEPT ![key] = "closed"]

\* a commit that writes the row back when the UPDATE finds none
commit_upsert(table, task) ==
    (task.content_id :> assign_result(Content(task.content_id, 1, task.text), task.result))
        @@ table

\* "content.summary = ...; content.sentiment = ...; db.commit()": the UPDATE
\* of the row with this id; no row with the id, no row written
commit_update(table, task) ==
    IF task.content_id \in DOMAIN table
    THEN [table EXCEPT ![task.content_id] = assign_result(@, task.result)]
    ELSE table

TaskInProgress(task) == task.pc \in {"awaiting", "analyzed", "found"}

\* get_db: the session of the request that will create row next_id
get_db_open ==
    /\ next_id <= MaxContents
    /\ session_of_request(next_id) \notin DOMAIN sessions
    /\ sessions' = session_open(sessions, session_of_request(next_id))
    /\ UNCHANGED <<api, keys, upstream, an, fn, runs, users, signups, registered>>

\* the finally branch of get_db, once the handler has returned
get_db_close(content_id) ==
    /\ content_id \in DOMAIN tasks
    /\ session_of_request(content_id) \in DOMAIN sessions
    /\ sessions[session_of_request(content_id)] = "open"
    /\ sessions' = session_close(sessions, session_of_request(content_id))
    /\ UNCHANGED <<api, keys, upstream, an, fn, runs, users, signups, registered>>

\* "db = SessionLocal()" and the call of analyze_text
process_content_ai_session(content_id) ==
    /\ content_id \in DOMAIN tasks
    /\ tasks[content_id].pc = "scheduled"
    /\ tasks' = [tasks EXCEPT ![content_id].pc = "awaiting"]
    /\ sessions' = session_open(sessions, session_of_task(content_id))
    /\ UNCHANGED <<contents, next_id, response, keys, upstream, an, fn,
                   runs, users, signups, registered>>

\* "result = await analyze_text(text)" is over; an exception goes through the
\* except branch (rollback) and the finally branch (close)
process_content_ai_await(content_id) ==
    /\ content_id \in DOMAIN tasks
    /\ tasks[content_id].pc = "awaiting"
    /\ LET result == await_analyze_text(tasks[content_id].text, upstream,
                                        HUGGINGFACE_API_KEY, OPENAI_API_KEY)
       IN /\ tasks' = [tasks EXCEPT ![content_id] = after_await(@, result)]
          /\ contents' = IF result.raised THEN rollback(contents) ELSE contents
          /\ sessions' = IF tasks'[content_id].pc = "done"
                         THEN session_close(sessions, session_of_task(content_id))
                         ELSE sessions
    /\ UNCHANGED <<next_id, response, keys, upstream, an, fn, runs, users, signups, registered>>

\* "content = db.query(Content).filter(Content.id == content_id).first()";
\* without a row the else branch prints and the finally branch closes
process_content_ai_query(content_id) ==
    /\ content_id \in DOMAIN tasks
    /\ tasks[content_id].pc = "analyzed"
    /\ IF content_id \in DOMAIN contents
       THEN /\ tasks' = [tasks EXCEPT ![content_id].pc = "found"]
            /\ UNCHANGED sessions
       ELSE /\ tasks' = [tasks EXCEPT ![content_id].pc = "done",
                                      ![content_id].outcome = "not_found"]
            /\ sessions' = session_close(sessions, session_of_task(content_id))
    /\ UNCHANGED <<contents, next_id, response, keys, upstream, an, fn,
                   runs, users, signups, registered>>

\* the assignments and db.commit(). The commit raises when the database
\* fails, and when the row was deleted since the query the UPDATE matches no
\* row, which the ORM reports by raising or lets pass; an exception goes
\* through the except branch (rollback) and the finally branch (close)
process_content_ai_commit(content_id, commit_raises) ==
    /\ content_id \in DOMAIN tasks
    /\ tasks[content_id].pc = "found"
    /\ IF commit_raises
       THEN /\ contents' = rollback(contents)
            /\ tasks' = [tasks EXCEPT ![content_id].pc = "done",
                                      ![content_id].outcome = "rolled_back"]
       ELSE /\ contents' = commit_update(contents, tasks[content_id])
            /\ tasks' = [tasks EXCEPT ![content_id].pc = "done",
                                      ![content_id].outcome =
                                          IF content_id \in DOMAIN contents
                                          THEN "updated" ELSE "no_row_matched",
                                      ![content_id].commits = @ + 1]
    /\ sessions' = session_close(sessions, session_of_task(content_id))
    /\ UNCHANGED <<next_id, response, keys, upstream, an, fn, runs, users, signups, registered>>

\* the process stops: the tasks it was running are gone with it, with their
\* sessions and those of its requests; nothing brings them back
process_interrupted ==
    /\ \E content_id \in DOMAIN tasks : tasks[content_id].pc \notin {"done", "lost"}
    /\ tasks' = [content_id \in DOMAIN tasks |->
                    IF tasks[content_id].pc \in {"done", "lost"} THEN tasks[content_id]
                    ELSE [tasks[content_id] EXCEPT !.pc = "lost"]]
    /\ sessions' = [key \in DOMAIN sessions |->
                       IF sessions[key] = "open" THEN "gone" ELSE sessions[key]]
    /\ UNCHANGED <<contents, next_id, response, keys, upstream, an, fn,
                   runs, users, signups, registered>>

TaskUsers == {1}
TaskTexts == {MovieText}

TaskInit ==
    /\ HUGGINGFACE_API_KEY \in ContentKeys.hf
    /\ OPENAI_API_KEY = JNull
    /\ upstream = HealthyStub
    /\ an = AnIdle
    /\ fn = FnIdle
    /\ ApiIdle
    /\ RestIdle

OpenRequestSession == get_db_open
TaskCreateContent ==
    /\ session_of_request(next_id) \in DOMAIN sessions
    /\ sessions[session_of_request(next_id)] = "open"
    /\ \E user \in TaskUsers, text \in TaskTexts : create_content(user, text)
CloseRequestSession == \E content_id \in 1..MaxContents : get_db_close(content_id)
TaskDeleteContent ==
    \E user \in TaskUsers, content_id \in 1..MaxContents :
        content_id \in DOMAIN contents /\ delete_content(user, content_id)
TaskGetContent ==
    \E user \in TaskUsers, content_id \in 1..MaxContents :
        content_id \in DOMAIN tasks /\ get_content(user, content_id)
TaskOpensSession == \E content_id \in 1..MaxContents : process_content_ai_session(content_id)
TaskAwaits == \E content_id \in 1..MaxContents : process_content_ai_await(content_id)
TaskQueries == \E content_id \in 1..MaxContents : process_content_ai_query(content_id)
TaskCommits ==
    \E content_id \in 1..MaxContents, commit_raises \in BOOLEAN :
        process_content_ai_commit(content_id, commit_raises)
ProcessInterrupted == process_interrupted

TaskNext ==
    \/ OpenRequestSession \/ TaskCreateContent \/ CloseRequestSession
    \/ TaskDeleteContent \/ TaskGetContent
    \/ TaskOpensSession \/ TaskAwaits \/ TaskQueries \/ TaskCommits
    \/ ProcessInterrupted

SpecTask == TaskInit /\ [][TaskNext]_vars

(***************************************************************************)
(* Properties                                                              *)
(***************************************************************************)
\* a credential as the documentation describes it: present and not blank,
\* and for OpenAI not the placeholder of the sample .env
HasHuggingFaceCredential ==
    HUGGINGFACE_API_KEY.t = "str" /\ str_strip(HUGGINGFACE_API_KEY.s) # ""
HasOpenAICredential ==
    /\ OPENAI_API_KEY.t = "str"
    /\ str_strip(OPENAI_API_KEY.s) # ""
    /\ OPENAI_API_KEY.s # OPENAI_PLACEHOLDER_KEY

AnalyzeOver == an.pc \in {"returned", "raised"}
OpenAICalls == {k \in DOMAIN an.calls : an.calls[k].provider = "openai"}

\* C1: whenever at least one provider credential is configured analyze_text
\* returns, without raising, a non-empty summary and a sentiment among
\* Positive, Negative, Neutral; it raises only when no credential is configured
C1_ReturnsWheneverConfigured ==
    AnalyzeOver =>
        /\ (HasHuggingFaceCredential \/ HasOpenAICredential) =>
               /\ an.pc = "returned"
               /\ an.result.summary.t = "str"
               /\ an.result.summary.s # ""
               /\ an.result.sentiment \in SentimentType
        /\ an.pc = "raised" => ~(HasHuggingFaceCredential \/ HasOpenAICredential)

\* C2: with no provider credential configured analyze_text raises the
\* no-keys error, and no upstream call is made before it raises
C2_NoCredentialRaisesWithoutCalls ==
    (~HasHuggingFaceCredential /\ ~HasOpenAICredential /\ an.pc # "idle") =>
        /\ an.pc = "raised"
        /\ an.error = NO_KEYS_ERROR
        /\ an.calls = <<>>

C2_Witness ==
    /\ HUGGINGFACE_API_KEY = JStr("  ")
    /\ OPENAI_API_KEY = JStr(OPENAI_PLACEHOLDER_KEY)
    /\ an.pc = "raised"
    /\ an.error = NO_KEYS_ERROR

\* C3: when the summary HuggingFace returned is judged fallback-shaped and an
\* OpenAI credential is configured, analyze_text attempts OpenAI instead of
\* returning the HuggingFace result
C3_FallbackShapedEscalates ==
    (AnalyzeOver /\ HasOpenAICredential /\ an.hf = "returned"
                 /\ an.result.judged = "fallback") =>
        /\ OpenAICalls # {}
        /\ an.result.source # "huggingface"

\* the answers the cascade claim is about
Answers503(resp) == resp.kind = "http" /\ resp.status = 503
SummaryTextOf(resp) ==
    IF resp.body.t = "dict" THEN resp.body.kv["summary_text"]
    ELSE resp.body.xs[1].kv["summary_text"]
AnswersSummaryText(resp) ==
    /\ resp.kind = "http" /\ resp.status = 200
    /\ \/ resp.body.t = "dict" /\ DOMAIN resp.body.kv = {"summary_text"}
       \/ /\ resp.body.t = "list" /\ Len(resp.body.xs) = 1
          /\ resp.body.xs[1].t = "dict" /\ DOMAIN resp.body.xs[1].kv = {"summary_text"}
    /\ SummaryTextOf(resp).t = "str"
    /\ SummaryTextOf(resp).s # ""
SummaryCascadeOver == HasHuggingFaceCredential /\ an.pc \notin {"idle", "hf_summary"}
CallsOfSummaryModel(i) ==
    {k \in DOMAIN an.calls : an.calls[k].task = "summary"
                             /\ an.calls[k].model = summary_models[i]}

\* C4: when the first summary model answers 503 and the second answers 200
\* with a summary_text, the cascade's summary is the second model's
\* summary_text and the first model was called exactly once
C4_SecondModelAfter503 ==
    (SummaryCascadeOver /\ Answers503(upstream.summary[1])
                        /\ AnswersSummaryText(upstream.summary[2])) =>
        /\ an.summary = SummaryTextOf(upstream.summary[2])
        /\ Cardinality(CallsOfSummaryModel(1)) = 1
        /\ Cardinality(CallsOfSummaryModel(2)) = 1
        /\ an.calls[1].model = summary_models[1]
        /\ an.calls[2].model = summary_models[2]
        /\ an.result.source = "huggingface" => an.result.summary = an.summary

C4_Witness ==
    /\ Answers503(upstream.summary[1])
    /\ AnswersSummaryText(upstream.summary[2])
    /\ an.pc = "returned"
    /\ an.result.source = "huggingface"
    /\ an.result.summary = JStr(GenuineSummary)

C6_FallbackSummaryJudgedFallback ==
    (fn.op = "summary" /\ fn.done) => is_fallback(fn.summary, fn.text)

\* a provider call fails: a timeout or transport error, or a 5xx status
CallFails(resp) == resp.kind = "exception" \/ resp.status >= 500
AllProvidersFail ==
    /\ \A i \in DOMAIN upstream.summary : CallFails(upstream.summary[i])
    /\ \A i \in DOMAIN upstream.sentiment : CallFails(upstream.sentiment[i])
    /\ CallFails(upstream.openai)

\* the extractive summary and the keyword sentiment of each text
LocalSynthesis ==
    [text \in ContentTexts |->
        [summary |-> generate_fallback_summary(text),
         sentiment |-> detect_sentiment_keywords(text)]]

\* the row of a finished task holds the local synthesis of its text
EnrichedLocally(id) ==
    /\ contents[id].summary = JStr(LocalSynthesis[contents[id].text].summary)
    /\ contents[id].summary.s # ""
    /\ contents[id].sentiment = JStr(LocalSynthesis[contents[id].text].sentiment)
    /\ contents[id].text = MovieText => contents[id].sentiment = JStr(POSITIVE)

TaskOver(id) == id \in DOMAIN contents /\ tasks[id].pc = "done"

C8_SummaryAndSentimentTogether ==
    /\ \A id \in DOMAIN contents :
           (contents[id].summary = JNull) <=> (contents[id].sentiment = JNull)
    /\ \A id \in DOMAIN tasks :
           /\ tasks[id].commits <= 1
           /\ tasks[id].commits = 1 <=> tasks[id].outcome = "updated"
           /\ (tasks[id].outcome = "updated" /\ id \in DOMAIN contents) =>
                  /\ contents[id].summary = tasks[id].result.summary
                  /\ contents[id].sentiment = JStr(tasks[id].result.sentiment)

C8_Witness ==
    \E id \in DOMAIN contents :
        /\ tasks[id].commits = 1
        /\ contents[id].summary # JNull
        /\ contents[id].sentiment # JNull

\* the row of a task whose analysis raised
UnenrichedAfterRaise(id) ==
    (tasks[id].result.raised /\ tasks[id].pc # "scheduled") =>
        /\ tasks[id].pc = "done"
        /\ tasks[id].outcome = "rolled_back"
        /\ tasks[id].commits = 0
        /\ id \in DOMAIN contents =>
               /\ contents[id].summary = JNull
               /\ contents[id].sentiment = JNull
               /\ contents[id].text = tasks[id].text

\* the step of a task in which analyze_text raises
RaiseStep(id) ==
    /\ id \in DOMAIN tasks
    /\ tasks[id].pc = "scheduled"
    /\ tasks'[id].pc # "scheduled"
    /\ tasks'[id].result.raised

\* C9: when analyze_text raises, whatever the error, process_content_ai ends
\* without propagating it: the step leaves the table as it was (text and owner
\* of every row unchanged) and the row keeps summary and sentiment null
C9_RaiseLeavesRowUnenriched ==
    /\ [](\A id \in DOMAIN tasks : UnenrichedAfterRaise(id))
    /\ [][\A id \in 1..MaxContents :
              RaiseStep(id) => (contents' = contents /\ tasks'[id].pc = "done")]_vars

C9_Witness ==
    \E id \in DOMAIN contents :
        /\ tasks[id].pc = "done"
        /\ tasks[id].result.raised
        /\ tasks[id].result.error = NO_KEYS_ERROR
        /\ contents[id].summary = JNull

\* C10: _detect_sentiment_keywords gives Positive when the positive count is
\* the greater, Negative when the negative count is the greater, and Neutral
\* on every tie, 0-0 or not
C10_SentimentOfCounts ==
    (fn.op = "keywords" /\ fn.done) =>
        /\ fn.pos > fn.neg => fn.sentiment = POSITIVE
        /\ fn.neg > fn.pos => fn.sentiment = NEGATIVE
        /\ fn.pos = fn.neg => fn.sentiment = NEUTRAL

C10_Witness ==
    /\ fn.op = "keywords" /\ fn.done
    /\ fn.pos = fn.neg /\ fn.pos > 0
    /\ fn.sentiment = NEUTRAL

\* the number of whole-word, case-insensitive occurrences in the text of the
\* terms of a list: one for each term of the list and each place it stands at
TermsOf(words) == {words[k] : k \in DOMAIN words}
WholeWordOccurrences(words, text) ==
    LET c == lower_chars(text)
    IN Cardinality({hit \in TermsOf(words) \X word_starts(c) :
                        pattern_matches_at(hit[1], c, hit[2])})

\* C11: the positive and the negative count of _detect_sentiment_keywords are
\* the numbers of whole-word, case-insensitive occurrences of the terms of
\* the respective list, each occurrence of a listed term counting exactly 1
C11_CountsAreWholeWordOccurrences ==
    (fn.op = "keywords" /\ fn.done) =>
        /\ fn.pos = WholeWordOccurrences(positive_words, fn.text)
        /\ fn.neg = WholeWordOccurrences(negative_words, fn.text)

\* the first sentence of a text: what stands before the first run of '.', '!'
\* or '?' in the trimmed text, trimmed
FirstSentenceOf(text) ==
    LET t == str_strip(text)
    IN str_strip(SubSeq(t, 1, SkipNotIn(t, 1, SentenceTerminals) - 1))
EndsWithTerminal(s) == \E p \in SentenceTerminals : str_endswith(s, p)
FirstWordsOf(text, n) ==
    LET ws == str_split(text) IN str_join(" ", SubSeq(ws, 1, Min(n, Len(ws))))
SummaryApplied == fn.op = "summary" /\ fn.done
BlankText(text) == text = "" \/ str_strip(text) = ""

UserRows == { users[i] : i \in DOMAIN users }

\* C15: a create_content request whose Authorization header is missing, holds
\* a token that is no JWT or is signed with another key, an expired token, a
\* token without sub or a token naming nobody in the users table is answered
\* 401, and leaves the contents table and the scheduled tasks as they were
C15_UnauthenticatedCreateRejected ==
    [][\A authorization \in InvalidCredentials, text \in ApiTexts :
           create_content_request(authorization, text) =>
               /\ response'.status = HTTP_401_UNAUTHORIZED
               /\ UNCHANGED <<contents, next_id, tasks>>]_vars

C15_Witness ==
    /\ response = [status |-> HTTP_401_UNAUTHORIZED, request |-> "create_content",
                   body |-> [detail |-> "Could not validate credentials"]]
    /\ contents = <<>>
    /\ tasks = <<>>

C17_OwnerIsolation ==
    [][\A user \in UserRows, content_id \in 1..MaxContents :
          /\ get_content_request(TokenOf(user), content_id) =>
                /\ contents' = contents
                /\ IF content_id \in DOMAIN contents /\ contents[content_id].user_id = user.id
                   THEN response'.status = HTTP_200_OK /\ response'.body.id = content_id
                   ELSE response'.status = HTTP_404_NOT_FOUND
          /\ delete_content_request(TokenOf(user), content_id) =>
                IF content_id \in DOMAIN contents /\ contents[content_id].user_id = user.id
                THEN contents' = [id \in DOMAIN contents \ {content_id} |-> contents[id]]
                ELSE response'.status = HTTP_404_NOT_FOUND /\ contents' = contents
          /\ \A skip \in Skips, limit \in Limits :
                get_contents_request(TokenOf(user), skip, limit) =>
                    /\ contents' = contents
                    /\ \A i \in DOMAIN response'.body.contents :
                          LET id == response'.body.contents[i].id
                          IN id \in DOMAIN contents /\ contents[id].user_id = user.id
                    /\ response'.body.total =
                           Cardinality({id \in DOMAIN contents : contents[id].user_id = user.id})]_vars

\* every id handed out still has its row, and a get_content was answered 404:
\* the row asked for is another user's
C17_Witness ==
    /\ response = [status |-> HTTP_404_NOT_FOUND, request |-> "get_content",
                   body |-> [detail |-> "Content not found"]]
    /\ DOMAIN contents = 1..MaxContents

\* C18: the owner's delete_content answered 204 leaves no row of that id; an
\* id that was handed out and has no row never has one again, and the owner's
\* get_content on it is answered 404; the owner's get_content on a row that
\* is there is answered 200 with the id and the text create_content was given
C18_DeletedStaysGone ==
    [][\A user \in UserRows, content_id \in 1..MaxContents :
          /\ delete_content_request(TokenOf(user), content_id)
             /\ response'.status = HTTP_204_NO_CONTENT =>
                content_id \in DOMAIN contents /\ content_id \notin DOMAIN contents'
          /\ content_id < next_id /\ content_id \notin DOMAIN contents =>
                /\ content_id \notin DOMAIN contents'
                /\ get_content_request(TokenOf(user), content_id) =>
                       response'.status = HTTP_404_NOT_FOUND
          /\ content_id \in DOMAIN contents
             /\ contents[content_id].user_id = user.id
             /\ get_content_request(TokenOf(user), content_id) =>
                /\ response'.status = HTTP_200_OK
                /\ response'.body.id = content_id
                /\ response'.body.text = tasks[content_id].text]_vars

\* every id was handed out, every row was deleted, and a get_content was
\* answered 404
C18_Witness ==
    /\ response = [status |-> HTTP_404_NOT_FOUND, request |-> "get_content",
                   body |-> [detail |-> "Content not found"]]
    /\ users = RegisteredUsers
    /\ next_id = MaxContents + 1
    /\ contents = <<>>

\* C19: no two rows of the users table share a username or an email; a
\* signup whose username or email is registered is answered 400 by its
\* checks and adds no row; of the signups that passed their checks, the
\* commit of one whose username or email has been committed meanwhile adds
\* no row and is answered 400, and no commit adds more than its own row
C19_UsernamesAndEmailsUnique ==
    /\ [](\A i, j \in DOMAIN users :
             i # j => users[i].username # users[j].username /\ users[i].email # users[j].email)
    /\ [][/\ \A client \in Clients, user_data \in UserSignup, salt \in Salts :
                /\ signup_check(client, user_data, salt)
                /\ \E i \in DOMAIN users : \/ users[i].username = user_data.username
                                           \/ users[i].email = user_data.email
                => /\ response'.status = HTTP_400_BAD_REQUEST
                   /\ UNCHANGED <<users, signups>>
          /\ \A client \in Clients :
                signup_commit(client) =>
                    \A s \in signups \ signups' :
                        IF \E i \in DOMAIN users : \/ users[i].username = s.new_user.username
                                                   \/ users[i].email = s.new_user.email
                        THEN /\ users' = users
                             /\ response'.status = HTTP_400_BAD_REQUEST
                        ELSE /\ Len(users') = Len(users) + 1
                             /\ SubSeq(users', 1, Len(users)) = users
                             /\ users'[Len(users')].username = s.new_user.username
                             /\ users'[Len(users')].email = s.new_user.email]_vars

\* two signups passed their checks, one committed, and the commit of the
\* other was refused and rolled back
C19_Witness ==
    /\ response = AuthError("signup", HTTP_400_BAD_REQUEST, "User already exists")
    /\ Len(users) = 1
    /\ signups = {}

\* C20: login answers 200 with a bearer token exactly when the username has a
\* row and the password is the one its signup was given; every other login
\* is answered by one and the same 401
C20_LoginIffRegisteredPassword ==
    [][\A user_credentials \in UserLogin :
          login(user_credentials) =>
              IF /\ user_credentials.username \in DOMAIN registered
                 /\ registered[user_credentials.username] = user_credentials.password
              THEN /\ response'.status = HTTP_200_OK
                   /\ response'.body.token_type = "bearer"
              ELSE response' = AuthError("login", HTTP_401_UNAUTHORIZED,
                                         "Incorrect username or password")]_vars

\* login answers 200 exactly when the username has a row and the password
\* prepares to the bytes the registered one prepares to, which is more than
\* the registered password alone
LoginIffSamePreparedPassword ==
    [][\A user_credentials \in UserLogin :
          login(user_credentials) =>
              IF /\ user_credentials.username \in DOMAIN registered
                 /\ _prepare_password_for_bcrypt(registered[user_credentials.username])
                        = _prepare_password_for_bcrypt(user_credentials.password)
              THEN /\ response'.status = HTTP_200_OK
                   /\ response'.body.token_type = "bearer"
              ELSE response' = AuthError("login", HTTP_401_UNAUTHORIZED,
                                         "Incorrect username or password")]_vars


HuggingFaceCalls == {k \in DOMAIN an.calls : an.calls[k].provider = "huggingface"}
CallsOfTask(task) == {k \in DOMAIN an.calls : an.calls[k].task = task}
\* the call to OpenAI has been made: it is awaited, or it has been answered
OpenAICalled == an.pc = "openai" \/ OpenAICalls # {}
\* analyze_with_huggingface returned a summary that one of its models gave
PrimaryGaveModelSummary ==
    an.hf = "returned" /\ an.summary.t = "str" /\ an.summary.s # ""

\* C21: when OpenAI is called, every call to a HuggingFace model was made
\* before it; if the HuggingFace key is configured, analyze_with_huggingface
\* is over by then, after calls of both its cascades, and it did not return a
\* summary that a model gave; an invocation that returns the HuggingFace
\* result with a summary judged genuine never calls OpenAI
C21_OpenAIOnlyAfterHuggingFace ==
    /\ OpenAICalled =>
          /\ \A k \in OpenAICalls, j \in HuggingFaceCalls : j < k
          /\ HasHuggingFaceCredential =>
                /\ an.hf \in {"returned", "raised"}
                /\ CallsOfTask("summary") # {}
                /\ CallsOfTask("sentiment") # {}
                /\ ~PrimaryGaveModelSummary
    /\ (an.result.source = "huggingface" /\ an.result.judged = "genuine") => ~OpenAICalled

\* analyze_with_huggingface raised after its two cascades, and OpenAI, called
\* after them, gave the result
C21_Witness ==
    /\ an.hf = "raised"
    /\ an.pc = "returned"
    /\ an.result.source = "openai"
    /\ Cardinality(HuggingFaceCalls) >= 3
    /\ OpenAICalls = {Len(an.calls)}


\* the calls of a task in the order they were made
CallSeqOfTask(task) == SelectSeq(an.calls, LAMBDA c : c.task = task)
\* an answer that carries a summary: a 200 with a non-empty summary_text, or
\* a 410 whose outputs start with a non-empty string
UsableSummaryAnswer(resp) ==
    \/ AnswersSummaryText(resp)
    \/ /\ resp.kind = "http" /\ resp.status = 410
       /\ resp.body.t = "dict" /\ DOMAIN resp.body.kv = {"outputs"}
       /\ nonempty_list(resp.body.kv["outputs"])
       /\ resp.body.kv["outputs"].xs[1].t = "str"
       /\ resp.body.kv["outputs"].xs[1].s # ""
\* an answer whose best-scored label is positive or negative
UsableSentimentAnswer(resp) ==
    resp \in {HttpResponse(200, PositiveScores), HttpResponse(200, NegativeScores)}
UsableAnswer(task, resp) ==
    IF task = "summary" THEN UsableSummaryAnswer(resp) ELSE UsableSentimentAnswer(resp)
ModelsOfTask(task) == IF task = "summary" THEN summary_models ELSE sentiment_models

\* C22: the calls of a cascade go to its candidate models in list order, the
\* n-th call to the n-th model, so each model is called at most once; and
\* after an answer that carries a usable value no later candidate is called
C22_CandidatesInOrderUntilUsable ==
    \A task \in {"summary", "sentiment"} :
        LET made == CallSeqOfTask(task)
        IN /\ Len(made) <= Len(ModelsOfTask(task))
           /\ \A n \in DOMAIN made :
                 /\ made[n].model = ModelsOfTask(task)[n]
                 /\ UsableAnswer(task, made[n].response) => n = Len(made)

\* the first summary model gave a usable summary and the second was not
\* called; the first sentiment model gave none and the second was called
C22_Witness ==
    /\ an.pc = "returned"
    /\ UsableSummaryAnswer(upstream.summary[1])
    /\ Len(CallSeqOfTask("summary")) = 1
    /\ ~UsableSentimentAnswer(upstream.sentiment[1])
    /\ UsableSentimentAnswer(upstream.sentiment[2])
    /\ Len(CallSeqOfTask("sentiment")) = 2


\* analyze_with_huggingface is over: it returned or it raised
HuggingFaceOver ==
    HasHuggingFaceCredential /\ an.pc \notin {"idle", "hf_summary", "hf_sentiment"}
\* a per-model failure: the post raised (timeout, transport error), or the
\* body of a 200 or 410 could not be parsed or handled
FailedAnswer(resp) ==
    \/ resp.kind = "exception"
    \/ /\ resp.kind = "http" /\ resp.status \in {200, 410}
       /\ \/ resp.body = NotJson
          \/ resp.body = JDict([summary_text |-> JNum(5)])

\* C23: when analyze_with_huggingface is over it has returned a result,
\* whatever failed on the way; after a failure on a candidate that is not the
\* last of its list the next candidate was called; and a timeout on the first
\* model followed by a usable answer of the second gives the second's value
C23_NoFailureEscapesCascade ==
    HuggingFaceOver =>
        /\ an.hf = "returned"
        /\ \A task \in {"summary", "sentiment"} :
              LET made == CallSeqOfTask(task)
              IN \A n \in DOMAIN made :
                    (FailedAnswer(made[n].response) /\ n < Len(ModelsOfTask(task)))
                        => n < Len(made)
        /\ (upstream.summary[1] = PostRaises /\ AnswersSummaryText(upstream.summary[2]))
               => an.summary = SummaryTextOf(upstream.summary[2])
        /\ (upstream.sentiment[1] = PostRaises
            /\ upstream.sentiment[2] = HttpResponse(200, PositiveScores))
               => an.sentiment = POSITIVE

\* what holds of C23 when the raise of analyze_with_huggingface is left aside
FailuresAdvanceCascade ==
    HuggingFaceOver =>
        /\ \A task \in {"summary", "sentiment"} :
              LET made == CallSeqOfTask(task)
              IN \A n \in DOMAIN made :
                    (FailedAnswer(made[n].response) /\ n < Len(ModelsOfTask(task)))
                        => n < Len(made)
        /\ (upstream.summary[1] = PostRaises /\ AnswersSummaryText(upstream.summary[2]))
               => an.summary = SummaryTextOf(upstream.summary[2])
        /\ (upstream.sentiment[1] = PostRaises
            /\ upstream.sentiment[2] = HttpResponse(200, PositiveScores))
               => an.sentiment = POSITIVE
        /\ an.hf = "raised" => ~sliceable(an.summary)


BothApplied == fn.at200.applied /\ fn.at410.applied
\* the value an answer gave its candidate: a summary that is None or empty is
\* no value
ValueOf(r) == IF fn.op = "summary" /\ ~truthy(r.value) THEN JNull ELSE r.value

\* C24: a body answered with status 410 gives the candidate the value, and
\* the cascade the stop, that the same body gives when answered with
\* status 200, for the summary shapes and for the score-list shapes
C24_Status410AsStatus200 ==
    BothApplied => /\ ValueOf(fn.at410) = ValueOf(fn.at200)
                   /\ fn.at410.stop = fn.at200.stop

\* where the two branches differ: a summary body that is a bare string, and a
\* sentiment body that is an object with an error key
Status410DiffersOnlyOnStringAndError ==
    (BothApplied /\ (ValueOf(fn.at410) # ValueOf(fn.at200) \/ fn.at410.stop # fn.at200.stop)) =>
        \/ fn.op = "summary" /\ fn.body.t = "str" /\ fn.body.s # ""
        \/ fn.op = "sentiment" /\ has_key(fn.body, "error")


\* the value a cascade holds before its first candidate answers
NoValue == IF fn.op = "summary" THEN JNull ELSE NEUTRAL
CarriesError == has_key(fn.body, "error")
NothingFrom(r) == r.applied => (r.value = NoValue /\ ~r.stop)

\* C25: a 200 or 410 body carrying an error field gives its candidate no
\* usable value, in the summarization and in the sentiment cascade, whatever
\* else the body carries, and the cascade goes on to the next candidate
C25_ErrorFieldYieldsNoValue ==
    CarriesError => (NothingFrom(fn.at200) /\ NothingFrom(fn.at410))

\* what holds instead: every branch but the 200 branch of the sentiment
\* cascade gives nothing for a body carrying an error field
ErrorFieldSkippedExceptSentiment200 ==
    CarriesError => /\ NothingFrom(fn.at410)
                    /\ fn.op = "summary" => NothingFrom(fn.at200)
ErrorFieldUsedBySentiment200 ==
    /\ fn.op = "sentiment" /\ CarriesError /\ fn.at200.applied
    /\ fn.at200.value = POSITIVE /\ fn.at200.stop


\* The shapes of a summary body as the documentation orders them.  An element
\* is an object carrying summary_text or generated_text, or a bare string.
NoMatch == [matches |-> FALSE]
Match(v) == [matches |-> TRUE, value |-> v]
CarriesSummary(o) == has_key(o, "summary_text") \/ has_key(o, "generated_text")
PreferredText(o) ==
    IF has_key(o, "summary_text") THEN o.kv["summary_text"] ELSE o.kv["generated_text"]
ElementShape(e) ==
    IF CarriesSummary(e) THEN Match(PreferredText(e))
    ELSE IF e.t = "str" THEN Match(e)
    ELSE NoMatch
OutputsShape(b) ==
    IF has_key(b, "outputs") /\ nonempty_list(dict_get(b, "outputs"))
    THEN ElementShape(b.kv["outputs"].xs[1])
    ELSE NoMatch
DirectShape(b) == IF CarriesSummary(b) THEN Match(PreferredText(b)) ELSE NoMatch
ListShape(b) == IF nonempty_list(b) THEN ElementShape(b.xs[1]) ELSE NoMatch
StringShape(b) == IF b.t = "str" THEN Match(b) ELSE NoMatch
FirstMatchingShape(b) ==
    IF OutputsShape(b).matches THEN OutputsShape(b)
    ELSE IF DirectShape(b).matches THEN DirectShape(b)
    ELSE IF ListShape(b).matches THEN ListShape(b)
    ELSE IF StringShape(b).matches THEN StringShape(b)
    ELSE NoMatch
\* a match on None or on an empty text is no value
ShapeValue(b) ==
    LET m == FirstMatchingShape(b)
    IN IF m.matches /\ truthy(m.value) THEN m.value ELSE JNull

SummaryAt200 == fn.op = "summary" /\ fn.at200.applied /\ ~CarriesError

\* C26: the summary of a 200 body is the value of the first shape that
\* matches, in the order outputs object, direct object, list, bare string,
\* with summary_text before generated_text; a body of no shape gives nothing
C26_FirstMatchingShapeWins ==
    SummaryAt200 => ValueOf(fn.at200) = ShapeValue(fn.body)

\* what holds instead: the code chooses the branch by the key "outputs" alone,
\* so an object with that key never reaches the direct shape, and inside an
\* element an empty summary_text gives way to generated_text
OutputsKeyHidesDirectShape ==
    has_key(fn.body, "outputs") /\ ~OutputsShape(fn.body).matches /\ CarriesSummary(fn.body)
EmptySummaryTextGivesWay ==
    \E e \in SummaryObjects :
        /\ has_key(e, "summary_text") /\ ~truthy(e.kv["summary_text"]) /\ has_key(e, "generated_text")
        /\ fn.body \in {JList(<<e>>), JDict([outputs |-> JList(<<e>>)])}
FirstMatchingShapeButForOutputsKey ==
    (SummaryAt200 /\ ~OutputsKeyHidesDirectShape /\ ~EmptySummaryTextGivesWay)
        => ValueOf(fn.at200) = ShapeValue(fn.body)
OutputsKeyGivesNothing ==
    (SummaryAt200 /\ OutputsKeyHidesDirectShape) => ValueOf(fn.at200) = JNull


\* the {label, score} entries of a sentiment body; entries without a numeric
\* score or a text label are left to the error handling
ScoreEntries == scores_list_of(fn.body)
HasScoreEntries ==
    /\ fn.op = "sentiment" /\ fn.body.t # "invalid" /\ ~CarriesError
    /\ usable_scores(ScoreEntries) /\ ~scores_raise(ScoreEntries)
ScoreAt(k) == score_of(ScoreEntries.xs[k]).n
MaxScoreIndices ==
    {k \in 1..Len(ScoreEntries.xs) : \A j \in 1..Len(ScoreEntries.xs) : ScoreAt(j) <= ScoreAt(k)}
FirstMaxIndex == CHOOSE k \in MaxScoreIndices : \A j \in MaxScoreIndices : k <= j
LastMaxIndex == CHOOSE k \in MaxScoreIndices : \A j \in MaxScoreIndices : k >= j
SentimentOfEntry(k) == label_sentiment(str_upper(label_of(ScoreEntries.xs[k]).s))
SentimentIs(r, s) == r.applied => r.value = s

\* C27: sentiment normalization takes the entry with the greatest score, the
\* first of them in list order when several share it, and the sentiment is
\* the one that entry's label maps to
C27_FirstMaximumScoreDecides ==
    HasScoreEntries => /\ SentimentIs(fn.at200, SentimentOfEntry(FirstMaxIndex))
                       /\ SentimentIs(fn.at410, SentimentOfEntry(FirstMaxIndex))
\* several entries share the greatest score and the first and the last of
\* them map to different sentiments
C27_Witness ==
    /\ HasScoreEntries /\ BothApplied
    /\ FirstMaxIndex # LastMaxIndex
    /\ SentimentOfEntry(FirstMaxIndex) = POSITIVE
    /\ SentimentOfEntry(LastMaxIndex) = NEUTRAL
    /\ fn.at200.value = POSITIVE


\* the token sets of the documentation, matched on the whole upper-cased label
PositiveTokens == {"POSITIVE", "POS", "LABEL_1", "LABEL_2"}
NegativeTokens == {"NEGATIVE", "NEG", "LABEL_0"}
TokenSentiment(label) ==
    IF str_upper(label) \in PositiveTokens THEN POSITIVE
    ELSE IF str_upper(label) \in NegativeTokens THEN NEGATIVE
    ELSE NEUTRAL
SelectedLabel == label_of(ScoreEntries.xs[FirstMaxIndex]).s
IsToken(label) == str_upper(label) \in (PositiveTokens \cup NegativeTokens)

\* C28: the selected label maps to Positive when it equals, whatever its
\* case, POSITIVE, POS, LABEL_1 or LABEL_2, to Negative when it equals
\* NEGATIVE, NEG or LABEL_0, and to Neutral otherwise, also when it only
\* contains POS or NEG
C28_LabelMappedByToken ==
    HasScoreEntries => /\ SentimentIs(fn.at200, TokenSentiment(SelectedLabel))
                       /\ SentimentIs(fn.at410, TokenSentiment(SelectedLabel))

\* what holds instead: a label that is one of the tokens maps as documented,
\* and a label that merely contains one maps like the token it contains
TokensMappedAsDocumented ==
    (HasScoreEntries /\ (IsToken(SelectedLabel) \/ label_sentiment(str_upper(SelectedLabel)) = NEUTRAL))
        => /\ SentimentIs(fn.at200, TokenSentiment(SelectedLabel))
           /\ SentimentIs(fn.at410, TokenSentiment(SelectedLabel))
FragmentMappedLikeToken ==
    /\ HasScoreEntries /\ BothApplied
    /\ SelectedLabel = "opposition"
    /\ fn.at200.value = POSITIVE /\ fn.at410.value = POSITIVE


\* what the top label of an answer normalizes to; "none" for an answer that
\* has no top label (no 200 or 410, no score list, malformed entries)
TopSentiment(resp) ==
    IF resp.kind = "http" /\ resp.status \in {200, 410} /\ resp.body.t # "invalid"
       /\ ~has_key(resp.body, "error")
       /\ usable_scores(scores_list_of(resp.body)) /\ ~scores_raise(scores_list_of(resp.body))
    THEN label_sentiment(str_upper(label_of(max_label(scores_list_of(resp.body))).s))
    ELSE "none"
Decisive(resp) == TopSentiment(resp) \in {POSITIVE, NEGATIVE}
SentimentAnswers == [k \in 1..Len(CallSeqOfTask("sentiment")) |-> CallSeqOfTask("sentiment")[k].response]

\* C29: no sentiment candidate is called after one whose top label is
\* Positive or Negative; after any other answer, a Neutral top label
\* included, the next candidate is called; and the cascade ends with the
\* Positive or Negative it stopped at, also when a Neutral came before it
C29_SentimentCascadeStopsOnPolarity ==
    /\ \A k \in 1..(Len(SentimentAnswers) - 1) : ~Decisive(SentimentAnswers[k])
    /\ HuggingFaceOver =>
          /\ Len(SentimentAnswers) >= 1
          /\ Len(SentimentAnswers) < Len(sentiment_models)
                 => Decisive(SentimentAnswers[Len(SentimentAnswers)])
          /\ an.sentiment = IF Decisive(SentimentAnswers[Len(SentimentAnswers)])
                            THEN TopSentiment(SentimentAnswers[Len(SentimentAnswers)])
                            ELSE NEUTRAL
\* the first model's top label was Neutral, the second was called and its
\* Negative is what the cascade ended with
C29_Witness ==
    /\ HuggingFaceOver
    /\ Len(SentimentAnswers) = 2
    /\ TopSentiment(SentimentAnswers[1]) = NEUTRAL
    /\ TopSentiment(SentimentAnswers[2]) = NEGATIVE
    /\ an.sentiment = NEGATIVE


\* analyze_with_huggingface returned its result to analyze_text, which
\* returned it: an.sentiment is what the sentiment cascade ended with
HuggingFaceResultReturned ==
    an.pc = "returned" /\ an.hf = "returned" /\ an.result.source = "huggingface"
SummaryInHandIsPlaceholder == an.result.summary = JStr(SUMMARY_UNAVAILABLE)
KeywordsOfFullText == detect_sentiment_keywords(an.text)

\* C30: the returned sentiment is the keyword result of the full text exactly
\* when the cascade ended with Neutral and the summary is not the placeholder
\* "Summary not available"; otherwise it is what the cascade ended with, so a
\* Positive or Negative of an upstream model is never overridden
C30_KeywordFallbackOnlyOnNeutral ==
    HuggingFaceResultReturned =>
        /\ an.result.keyword_sentiment <=> (an.sentiment = NEUTRAL /\ ~SummaryInHandIsPlaceholder)
        /\ an.result.sentiment = IF an.sentiment = NEUTRAL /\ ~SummaryInHandIsPlaceholder
                                 THEN KeywordsOfFullText
                                 ELSE an.sentiment
\* upstream models answered Neutral and the keywords of the text say Positive
C30_Witness ==
    /\ HuggingFaceResultReturned
    /\ \E k \in 1..Len(SentimentAnswers) : TopSentiment(SentimentAnswers[k]) = NEUTRAL
    /\ an.sentiment = NEUTRAL /\ ~SummaryInHandIsPlaceholder
    /\ an.result.sentiment = POSITIVE
\* the other cases: a Negative of a model kept against Positive keywords, a
\* Neutral kept because the summary is the placeholder, and keywords found
\* beyond the 512 characters sent upstream
UpstreamPolarityKept ==
    /\ HuggingFaceResultReturned /\ an.sentiment = NEGATIVE
    /\ KeywordsOfFullText = POSITIVE /\ an.result.sentiment = NEGATIVE
NeutralKeptWithPlaceholder ==
    /\ HuggingFaceResultReturned /\ an.sentiment = NEUTRAL /\ SummaryInHandIsPlaceholder
    /\ KeywordsOfFullText = POSITIVE /\ an.result.sentiment = NEUTRAL
KeywordsBeyondInputLimit ==
    /\ HuggingFaceResultReturned /\ an.text = LongText
    /\ detect_sentiment_keywords(huggingface_inputs(an.text)) = NEUTRAL
    /\ an.result.sentiment = NEGATIVE


\* the first 512 characters of the text under analysis
FirstCharacters == str_prefix(an.text, HF_INPUT_LIMIT)
TextIsLonger == Len(an.text) > HF_INPUT_LIMIT

\* C31: every call analyze_text makes, to a HuggingFace model or to OpenAI,
\* carries text[:512] as its input text and nothing of the text beyond it
C31_EveryCallSendsFirstCharacters ==
    \A k \in DOMAIN an.calls : an.calls[k].inputs = FirstCharacters

\* what holds instead: the calls to the HuggingFace models carry text[:512],
\* and the prompt sent to OpenAI carries the whole text
HuggingFaceCallsSendFirstCharacters ==
    \A k \in DOMAIN an.calls :
        an.calls[k].inputs = IF an.calls[k].provider = "huggingface"
                             THEN FirstCharacters ELSE an.text
WholeTextSentToOpenAI ==
    /\ TextIsLonger
    /\ \E k \in OpenAICalls : an.calls[k].inputs = an.text /\ Len(an.calls[k].inputs) > HF_INPUT_LIMIT
TruncatedTextSentToHuggingFace ==
    /\ TextIsLonger
    /\ \E k \in HuggingFaceCalls : Len(an.calls[k].inputs) = HF_INPUT_LIMIT


\* C32: an answer whose status is neither 200 nor 410 gives its candidate
\* nothing, whatever its body carries: the cascade keeps the value it had and
\* goes on to the next candidate
C32_OtherStatusBodyNeverUsed ==
    fn.atOther.applied => (fn.atOther.value = NoValue /\ ~fn.atOther.stop)
\* a body that gives a summary with status 200 and nothing with status 500
C32_Witness ==
    /\ fn.op = "summary" /\ fn.at200.applied /\ fn.atOther.applied
    /\ fn.at200.value = JStr("sum") /\ fn.at200.stop
    /\ fn.atOther.status = 500 /\ fn.atOther.value = JNull /\ ~fn.atOther.stop
\* the same for a score list, with status 404
ScoresIgnoredWithStatus404 ==
    /\ fn.op = "sentiment" /\ fn.at200.applied /\ fn.atOther.applied
    /\ fn.at200.value = POSITIVE /\ fn.at200.stop
    /\ fn.atOther.status = 404 /\ fn.atOther.value = NEUTRAL /\ ~fn.atOther.stop


\* the row of content id had its task been the only one: as created when
\* analyze_text raises on its text, with both fields assigned otherwise
AnalysisAlone(text) == await_analyze_text(text, upstream, HUGGINGFACE_API_KEY, OPENAI_API_KEY)
RowAlone(row) ==
    IF AnalysisAlone(row.text).raised
    THEN Content(row.id, row.user_id, row.text)
    ELSE [Content(row.id, row.user_id, row.text) EXCEPT
              !.summary = AnalysisAlone(row.text).summary,
              !.sentiment = JStr(AnalysisAlone(row.text).sentiment)]
TaskSteps(id) == tasks'[id] # tasks[id]

\* C33: a step of the task of content id changes no other task and no other
\* row, removes no row and leaves text, user_id and id of every row alone;
\* and once a task is over its row, if it still exists, is the row its task
\* alone would have left
C33_TasksDoNotInterfere ==
    /\ [](\A id \in DOMAIN contents : tasks[id].pc = "done" => contents[id] = RowAlone(contents[id]))
    /\ [][\A id \in DOMAIN tasks : TaskSteps(id) =>
              /\ \A other \in DOMAIN tasks \ {id} : tasks'[other] = tasks[other]
              /\ DOMAIN contents' = DOMAIN contents
              /\ \A other \in DOMAIN contents :
                    /\ contents'[other].text = contents[other].text
                    /\ contents'[other].user_id = contents[other].user_id
                    /\ contents'[other].id = contents[other].id
                    /\ other # id => contents'[other] = contents[other]]_vars
\* the second task ran to its end while the first was between its await and
\* its update, on another text
C33_Witness ==
    /\ DOMAIN contents = {1, 2}
    /\ contents[1].text # contents[2].text
    /\ tasks[1].pc = "analyzed" /\ contents[1].summary = JNull
    /\ tasks[2].pc = "done" /\ tasks[2].outcome = "updated"
    /\ contents[2].summary # JNull /\ contents[2] = RowAlone(contents[2])
    /\ tasks[1].result.summary # tasks[2].result.summary


TaskSession(id) == sessions[session_of_task(id)]
RequestSession(id) == sessions[session_of_request(id)]
ExitPaths == {"updated", "not_found", "rolled_back", "no_row_matched"}

\* C34: the session process_content_ai works with is one it opened itself,
\* not the session of the request that scheduled it: it is open while the
\* task is between its first statement and its end whatever the state of the
\* request's session, a task that reports its row updated has written it, and
\* the session is closed when the task has ended, on every exit path
C34_OwnSessionClosedOnEveryExit ==
    \A id \in DOMAIN tasks :
        /\ session_of_task(id) # session_of_request(id)
        /\ tasks[id].pc = "scheduled" => session_of_task(id) \notin DOMAIN sessions
        /\ TaskInProgress(tasks[id]) => TaskSession(id) = "open"
        /\ tasks[id].pc = "done" =>
              /\ TaskSession(id) = "closed"
              /\ tasks[id].outcome \in ExitPaths
              /\ (tasks[id].outcome = "updated" /\ id \in DOMAIN contents) =>
                     /\ contents[id].summary = tasks[id].result.summary
                     /\ contents[id].sentiment = JStr(tasks[id].result.sentiment)
\* the task has committed its update and closed its session, the request's
\* session being closed as well
C34_Witness ==
    \E id \in DOMAIN contents :
        /\ tasks[id].pc = "done" /\ tasks[id].outcome = "updated"
        /\ contents[id].summary # JNull
        /\ RequestSession(id) = "closed" /\ TaskSession(id) = "closed"
\* the exit paths
ExitAfterCommit == \E id \in DOMAIN tasks : tasks[id].outcome = "updated" /\ TaskSession(id) = "closed"
ExitWithoutRow == \E id \in DOMAIN tasks : tasks[id].outcome = "not_found" /\ TaskSession(id) = "closed"
ExitAfterAnalysisRaised ==
    \E id \in DOMAIN tasks :
        /\ tasks[id].outcome = "rolled_back" /\ tasks[id].result.raised
        /\ TaskSession(id) = "closed"
ExitAfterCommitRaised ==
    \E id \in DOMAIN tasks :
        /\ tasks[id].outcome = "rolled_back" /\ ~tasks[id].result.raised
        /\ TaskSession(id) = "closed"
\* refuted by a behaviour in which the request's session is closed first and
\* the task commits its update afterwards
NoCommitAfterRequestSessionClosed ==
    [][\A id \in DOMAIN tasks :
          ~(/\ tasks[id].pc = "found" /\ RequestSession(id) = "closed"
            /\ tasks'[id].outcome = "updated" /\ contents'[id].summary # JNull)]_vars


\* a task that will write nothing: its analysis raised, or it was running or
\* waiting when the process was interrupted
Abandoned(task) == task.pc = "lost" \/ (task.pc = "done" /\ task.result.raised)
Unenriched(row) == row.summary = JNull /\ row.sentiment = JNull

\* C35: analyze_text is called for a content item from the scheduled task
\* only, and no step puts a task back to scheduled, so it is called at most
\* once per item; a task whose analysis raised or that was interrupted never
\* moves again, and its row has summary and sentiment null for good
C35_AnalyzedAtMostOnce ==
    /\ [](\A id \in DOMAIN contents : Abandoned(tasks[id]) => Unenriched(contents[id]))
    /\ [][\A id \in DOMAIN tasks :
              /\ tasks[id].pc # "scheduled" => tasks'[id].pc \notin {"scheduled", "awaiting"}
                                               \/ tasks[id].pc = tasks'[id].pc
              /\ (tasks[id].pc # "awaiting" /\ tasks'[id].pc = "awaiting")
                     => tasks[id].pc = "scheduled"
              /\ Abandoned(tasks[id]) => tasks'[id] = tasks[id]]_vars
\* the first task was interrupted; the process went on, created the second
\* item and enriched it, and the first row is as it was created
C35_Witness ==
    /\ DOMAIN contents = {1, 2}
    /\ tasks[1].pc = "lost" /\ Unenriched(contents[1])
    /\ tasks[2].pc = "done" /\ tasks[2].outcome = "updated" /\ ~Unenriched(contents[2])
RaisedAnalysisLeavesRowUnset ==
    \E id \in DOMAIN contents :
        /\ tasks[id].pc = "done" /\ tasks[id].result.raised
        /\ tasks[id].result.error = NO_KEYS_ERROR /\ Unenriched(contents[id])


\* content id was created and its row has been deleted
RowDeleted(id) == id \in DOMAIN tasks /\ id \notin DOMAIN contents
NotFoundResponse ==
    [status |-> HTTP_404_NOT_FOUND, request |-> "get_content",
     body |-> [detail |-> "Content not found"]]

\* C36: once the row of a content item is deleted no step brings it back,
\* whatever its task does afterwards, and get_content answers 404 for it; a
\* task that ends without its row ends on one of the handled paths (no row
\* found, commit rolled back or matching no row) with its session closed
C36_DeletedRowNotRecreated ==
    /\ [](\A id \in DOMAIN tasks :
              (RowDeleted(id) /\ tasks[id].pc = "done") =>
                  /\ TaskSession(id) = "closed"
                  /\ tasks[id].outcome \in ExitPaths)
    /\ [][\A id \in DOMAIN tasks : RowDeleted(id) =>
              /\ id \notin DOMAIN contents'
              /\ \A user \in TaskUsers :
                    get_content(user, id) => response' = NotFoundResponse]_vars
\* the row was deleted between the task's query and its commit: the UPDATE
\* matched no row, the task ended, and get_content answered 404
C36_Witness ==
    \E id \in DOMAIN tasks :
        /\ RowDeleted(id)
        /\ tasks[id].pc = "done" /\ tasks[id].outcome = "no_row_matched"
        /\ TaskSession(id) = "closed"
        /\ response = NotFoundResponse
\* deleted before the query; deleted before the commit, which raised
DeletedBeforeQuery ==
    \E id \in DOMAIN tasks :
        RowDeleted(id) /\ tasks[id].outcome = "not_found" /\ TaskSession(id) = "closed"
DeletedBeforeCommitRaised ==
    \E id \in DOMAIN tasks :
        /\ RowDeleted(id) /\ tasks[id].outcome = "rolled_back" /\ ~tasks[id].result.raised
        /\ TaskSession(id) = "closed"


\* a text of no character, or of whitespace characters only
Blank(text) == \A i \in 1..Len(text) : SubSeq(text, i, i) \in Whitespace

\* C37: create_content with an empty or whitespace-only text answers 400 and
\* changes neither the contents table nor the tasks nor the id counter; no
\* row and no task ever holds such a text, so analyze_text is not awaited on
\* one
C37_BlankTextRejected ==
    /\ [](/\ \A id \in DOMAIN contents : ~Blank(contents[id].text)
          /\ \A id \in DOMAIN tasks : ~Blank(tasks[id].text))
    /\ [][\A user \in Users, text \in ContentTexts :
              (Blank(text) /\ create_content(user, text)) =>
                  /\ response'.status = HTTP_400_BAD_REQUEST
                  /\ contents' = contents /\ tasks' = tasks /\ next_id' = next_id]_vars
\* a row exists, and the last request, a create, was answered 400 without
\* adding a row or a task
C37_Witness ==
    /\ response = [status |-> HTTP_400_BAD_REQUEST]
    /\ DOMAIN contents = {1} /\ DOMAIN tasks = {1} /\ next_id = 2


\* how far an invocation has come: the candidates of the two cascades in list
\* order, then OpenAI, then the end
Position(a) ==
    IF a.pc = "idle" THEN 0
    ELSE IF a.pc = "hf_summary" THEN a.i
    ELSE IF a.pc = "hf_sentiment" THEN Len(summary_models) + a.i
    ELSE IF a.pc = "openai" THEN Len(summary_models) + Len(sentiment_models) + 1
    ELSE Len(summary_models) + Len(sentiment_models) + 2
MaxCalls == Len(summary_models) + Len(sentiment_models) + 1

\* C38: every invocation of analyze_text ends, by returning or by raising;
\* it makes at most one call per summary model, one per sentiment model and
\* one to OpenAI, and every step takes it to a later candidate or provider,
\* never back
C38_AnalyzeTextTerminates ==
    /\ <>AnalyzeOver
    /\ [](/\ Len(CallSeqOfTask("summary")) <= Len(summary_models)
          /\ Len(CallSeqOfTask("sentiment")) <= Len(sentiment_models)
          /\ Cardinality(OpenAICalls) <= 1
          /\ Len(an.calls) <= MaxCalls)
    /\ [][an' # an => (Position(an') > Position(an) /\ Len(an'.calls) <= Len(an.calls) + 1)]_vars
\* HuggingFace gave up after its four calls and OpenAI was called once
C38_Witness ==
    /\ AnalyzeOver
    /\ Len(an.calls) = MaxCalls
    /\ Len(CallSeqOfTask("summary")) = Len(summary_models)
    /\ Len(CallSeqOfTask("sentiment")) = Len(sentiment_models)
    /\ Cardinality(OpenAICalls) = 1

\* C39: the fallback summary of any text, blank and punctuation-only texts
\* included, is neither empty nor the placeholder; so the tail of
\* analyze_with_huggingface returns the placeholder exactly when a model
\* returned it, and a Neutral cascade result goes without the keywords exactly
\* then
C39_FallbackSummaryNeverEmpty ==
    /\ (fn.op = "summary" /\ fn.done) =>
           (fn.summary # "" /\ fn.summary # SUMMARY_UNAVAILABLE)
    /\ (fn.op = "tail" /\ fn.done) =>
           /\ ~fn.tail.raised
           /\ truthy(fn.tail.summary)
           /\ (fn.tail.summary = JStr(SUMMARY_UNAVAILABLE))
                  <=> (fn.in_hand = JStr(SUMMARY_UNAVAILABLE))
           /\ fn.cascade = NEUTRAL =>
                  (~fn.tail.keyword_sentiment <=> fn.in_hand = JStr(SUMMARY_UNAVAILABLE))
           /\ fn.tail.keyword_sentiment =>
                  fn.tail.sentiment = detect_sentiment_keywords(fn.text)
\* a text of punctuation only, nothing in hand: its fallback summary is the
\* text, and the keywords are consulted
C39_Witness ==
    /\ fn.op = "tail" /\ fn.done
    /\ fn.text = "..." /\ fn.in_hand = JNull /\ fn.cascade = NEUTRAL
    /\ fn.tail.summary = JStr("...")
    /\ fn.tail.fallback_summary /\ fn.tail.keyword_sentiment
\* a blank text gets "No text provided"
BlankTextFallbackNotEmpty ==
    /\ fn.op = "tail" /\ fn.done
    /\ fn.text = " " /\ fn.in_hand = JNull
    /\ fn.tail.summary = JStr("No text provided")
\* a model returned the placeholder: the Neutral of the cascade is kept
PlaceholderFromModelSuppressesKeywords ==
    /\ fn.op = "tail" /\ fn.done
    /\ fn.in_hand = JStr(SUMMARY_UNAVAILABLE) /\ fn.cascade = NEUTRAL
    /\ detect_sentiment_keywords(fn.text) # NEUTRAL
    /\ fn.tail.summary = JStr(SUMMARY_UNAVAILABLE)
    /\ fn.tail.sentiment = NEUTRAL /\ ~fn.tail.keyword_sentiment

\* analyze_with_openai returned, and analyze_text returns its result
OpenAIReturned == an.pc = "returned" /\ an.result.source = "openai"
\* the lines of the completion the OpenAI call was answered with
CompletionLines == str_split_on(openai_content(upstream.openai.body).s, "\n")
\* the lines that start with a label, and the text of the last of them: the
\* line without the label, stripped
Labelled(label) == {k \in 1..Len(CompletionLines) : str_startswith(CompletionLines[k], label)}
LastLabelled(label) ==
    CHOOSE k \in Labelled(label) : \A j \in Labelled(label) : j <= k
LabelledText(label) == str_strip(str_remove(CompletionLines[LastLabelled(label)], label))
SummaryLineText == IF Labelled("Summary:") = {} THEN "" ELSE LabelledText("Summary:")
SentimentLineText == IF Labelled("Sentiment:") = {} THEN "" ELSE LabelledText("Sentiment:")

\* C40: a result of analyze_with_openai has a non-empty summary and a
\* sentiment of the enum; the summary is the text of the "Summary:" line, the
\* placeholder when the line is missing or empty; the sentiment is Positive
\* when the "Sentiment:" line contains "Positive", Negative when it contains
\* "Negative" only, Neutral otherwise; the text analysed plays no part
C40_OpenAIResultFromCompletion ==
    OpenAIReturned =>
        /\ an.result.summary.t = "str" /\ an.result.summary.s # ""
        /\ an.result.sentiment \in SentimentType
        /\ an.result.summary = JStr(IF SummaryLineText = "" THEN SUMMARY_UNAVAILABLE
                                    ELSE SummaryLineText)
        /\ an.result.sentiment =
               IF str_contains(SentimentLineText, "Positive") THEN POSITIVE
               ELSE IF str_contains(SentimentLineText, "Negative") THEN NEGATIVE
               ELSE NEUTRAL
        /\ ~an.result.fallback_summary /\ ~an.result.keyword_sentiment
\* no "Summary:" line and no "Sentiment:" line, for a text with positive
\* keywords: the placeholder and Neutral, not the text's own sentence
C40_Witness ==
    /\ OpenAIReturned
    /\ Labelled("Summary:") = {} /\ Labelled("Sentiment:") = {}
    /\ Len(CompletionLines) = 1 /\ CompletionLines[1] # ""
    /\ detect_sentiment_keywords(an.text) = POSITIVE
    /\ an.result.summary = JStr(SUMMARY_UNAVAILABLE)
    /\ an.result.summary # JStr(generate_fallback_summary(an.text))
    /\ an.result.sentiment = NEUTRAL
\* both lines as asked for
CompletionInFormat ==
    /\ OpenAIReturned
    /\ an.result.summary = JStr(ShortSummary)
    /\ SentimentLineText = "Negative" /\ an.result.sentiment = NEGATIVE
\* an empty "Summary:" line gives the placeholder
EmptySummaryLine ==
    /\ OpenAIReturned
    /\ Labelled("Summary:") # {} /\ SummaryLineText = ""
    /\ an.result.summary = JStr(SUMMARY_UNAVAILABLE)
\* the word in lower case is not the word
LowerCaseWordIsNeutral ==
    /\ OpenAIReturned
    /\ SentimentLineText = "positive" /\ an.result.sentiment = NEUTRAL
\* both words in the line: Positive
BothWordsIsPositive ==
    /\ OpenAIReturned
    /\ str_contains(SentimentLineText, "Negative") /\ an.result.sentiment = POSITIVE
\* a label that does not start its line is no label
IndentedLabelIsNoLabel ==
    /\ OpenAIReturned
    /\ \E k \in 1..Len(CompletionLines) : str_contains(CompletionLines[k], "Summary:")
    /\ Labelled("Summary:") = {}
    /\ an.result.summary = JStr(SUMMARY_UNAVAILABLE)
\* of two lines with the same label the last one counts
LastLabelledLineCounts ==
    /\ OpenAIReturned
    /\ Cardinality(Labelled("Summary:")) = 2 /\ Cardinality(Labelled("Sentiment:")) = 2
    /\ an.result.summary = JStr(ShortSummary) /\ an.result.sentiment = NEUTRAL
\* the label is removed wherever it stands in its line
LabelRemovedThroughoutLine ==
    /\ OpenAIReturned
    /\ an.result.summary = JStr("a  b") /\ an.result.sentiment = NEGATIVE

====
